---- MODULE Spec2Model ----
(***************************************************************************)
(* A model of the ASM-VM interpreter (src/src/vm.rs, token.rs, scanner.rs). *)
(*                                                                         *)
(* 32-bit quantities are kept the way the VM keeps its registers: as four  *)
(* little-endian bytes ([u8; 4]).  u32/i32 arithmetic is done on the bytes *)
(* with explicit carries, so that wrap-around, carry and signed overflow   *)
(* are exactly those of the Rust operations.                               *)
(*                                                                         *)
(* Rust's `+`, `-`, `*` on integers panic on overflow in a debug build and *)
(* wrap in a release build; the variable `build` holds which one runs.     *)
(***************************************************************************)
EXTENDS Integers, Sequences, FiniteSets, TLC

VARIABLES
    source,   \* the token sequence the scanner delivers for the source file
    build,    \* "debug" | "release": overflow checks on or off
    text,     \* VM::text, the instruction stream
    index,    \* VM::index, label name -> stream index
    reg,      \* VM::eax .. VM::ebp, each four little-endian bytes
    eip,      \* VM::eip, four little-endian bytes
    cf, zf, sf, of,   \* VM::cf, VM::zf, VM::sf, VM::of
    stack,    \* VM::stack, address -> byte (bytes that are 0 are left out)
    memory,   \* VM::memory, address -> byte (bytes that are 0 are left out)
    depth,    \* VM::depth, a u8
    status,   \* "new" | "running" | "halted" | "panic": where VM::run is
    calls,    \* history: the calls executed and not yet returned from
    hist      \* history: the machine (and calls) before the last two dispatches

vars == <<source, build, text, index, reg, eip, cf, zf, sf, of,
          stack, memory, depth, status, calls, hist>>

-----------------------------------------------------------------------------
(* Bytes and 32-bit words                                                  *)

\* `let x = e; body`, written With([x \in {e} |-> body]): e is computed once
With(f) == f[CHOOSE x \in DOMAIN f : TRUE]

MAX == 1024 * 1024

Z4 == <<0, 0, 0, 0>>

\* n.to_le_bytes() for a small non-negative n
B4(n) == <<n % 256, (n \div 256) % 256, (n \div 65536) % 256, (n \div 16777216) % 256>>

\* the value of the three low bytes
Val24(b) == b[1] + 256 * b[2] + 65536 * b[3]

\* `x as usize` used as an array index: exact below 2^24, and some index
\* beyond every array of the VM otherwise
AsIndex(b) == IF b[4] = 0 THEN Val24(b) ELSE 16777216

\* (x as i32) < 0
IsNeg(b) == b[4] >= 128

\* a + b + cin on u32: v is the wrapped sum, c the carry out
AddC(a, b, cin) ==
    LET t1 == a[1] + b[1] + cin
        t2 == a[2] + b[2] + t1 \div 256
        t3 == a[3] + b[3] + t2 \div 256
        t4 == a[4] + b[4] + t3 \div 256
    IN  [v |-> <<t1 % 256, t2 % 256, t3 % 256, t4 % 256>>, c |-> t4 \div 256]

\* !x
NotW(a) == <<255 - a[1], 255 - a[2], 255 - a[3], 255 - a[4]>>

\* u32::overflowing_add: v the wrapped sum, o whether it overflowed
overflowing_add(a, b) ==
    LET s == AddC(a, b, 0) IN [v |-> s.v, o |-> s.c = 1]

\* a subtraction that never reports the borrow
overflowing_sub_NoBorrow(a, b) ==
    LET s == AddC(a, NotW(b), 1) IN [v |-> s.v, o |-> FALSE]

\* u32::overflowing_sub: v the wrapped difference, o whether it borrowed
overflowing_sub(a, b) ==
    LET s == AddC(a, NotW(b), 1) IN [v |-> s.v, o |-> s.c = 0]

\* i32::overflowing_add(..).1 on the same bits
signed_add_overflows(a, b) ==
    (IsNeg(a) = IsNeg(b)) /\ (IsNeg(AddC(a, b, 0).v) # IsNeg(a))

\* i32::overflowing_sub(..).1 on the same bits
signed_sub_overflows(a, b) ==
    (IsNeg(a) # IsNeg(b)) /\ (IsNeg(AddC(a, NotW(b), 1).v) # IsNeg(a))

\* u32::overflowing_neg: v = 0 - a wrapped, o = (a != 0)
overflowing_neg(a) == [v |-> AddC(NotW(a), Z4, 1).v, o |-> a # Z4]

\* a < b as u32
LtU(a, b) ==
    \E k \in 1..4 : a[k] < b[k] /\ \A j \in (k+1)..4 : a[j] = b[j]

\* the 8-byte product of two u32 (u64 arithmetic)
Mul8(a, b) ==
    LET col(k) == LET S == {i \in 0..3 : k - i \in 0..3}
                      term[T \in SUBSET S] ==
                          IF T = {} THEN 0
                          ELSE LET i == CHOOSE i \in T : TRUE
                               IN  a[i + 1] * b[k - i + 1] + term[T \ {i}]
                  IN  term[S]
        acc[k \in 0..7] == col(k) + (IF k = 0 THEN 0 ELSE acc[k - 1] \div 256)
    IN  [k \in 1..8 |-> acc[k - 1] % 256]

\* u32::overflowing_mul
overflowing_mul(a, b) ==
    LET p == Mul8(a, b)
    IN  [v |-> <<p[1], p[2], p[3], p[4]>>,
         o |-> <<p[5], p[6], p[7], p[8]>> # Z4]

\* a < b as i32
LtS(a, b) == IF IsNeg(a) # IsNeg(b) THEN IsNeg(a) ELSE LtU(a, b)

\* i32 `*`: v the wrapped product, o whether the signed product is out of range
\* (the high dword of the signed 64-bit product is not the sign of the low one)
overflowing_mul_i32(a, b) ==
    With([p \in {Mul8(a, b)} |->
        LET lo  == <<p[1], p[2], p[3], p[4]>>
            hiU == <<p[5], p[6], p[7], p[8]>>
            hi1 == IF IsNeg(a) THEN AddC(hiU, NotW(b), 1).v ELSE hiU
            hi2 == IF IsNeg(b) THEN AddC(hi1, NotW(a), 1).v ELSE hi1
        IN  [v |-> lo,
             o |-> ~(\/ hi2 = Z4 /\ ~IsNeg(lo)
                     \/ hi2 = <<255, 255, 255, 255>> /\ IsNeg(lo))]])

\* Numbers of any width, as little-endian byte sequences of one length.

\* a >= b
GeN(a, b) == ~\E k \in 1..Len(a) : a[k] < b[k] /\ \A j \in (k+1)..Len(a) : a[j] = b[j]

\* a - b, wrapped
SubN(a, b) ==
    LET borrow[k \in 0..Len(a)] ==
            IF k = 0 THEN 0
            ELSE IF a[k] - b[k] - borrow[k - 1] < 0 THEN 1 ELSE 0
    IN  SubSeq([k \in 1..Len(a) |-> (a[k] - b[k] - borrow[k - 1] + 256) % 256],
               1, Len(a))

ZeroN(n) == SubSeq([k \in 1..n |-> 0], 1, n)

\* 0 - a, wrapped
NegN(a) == SubN(ZeroN(Len(a)), a)

\* the top bit of a: a is negative as a signed number
IsNegN(a) == a[Len(a)] >= 128

\* 2a + bit, wrapped
Shl1(a, bit) ==
    SubSeq([k \in 1..Len(a) |->
                ((2 * a[k]) % 256) + (IF k = 1 THEN bit ELSE a[k - 1] \div 128)],
           1, Len(a))

\* bit i (0 = least significant) of a
BitOf(a, i) == (a[i \div 8 + 1] \div (2^(i % 8))) % 2

\* long division of n by d # 0 from bit i of n downwards: q the quotient so far,
\* r the remainder so far
RECURSIVE DivStep(_, _, _, _, _)
DivStep(n, d, i, q, r) ==
    IF i < 0 THEN [q |-> q, r |-> r]
    ELSE With([r1 \in {Shl1(r, BitOf(n, i))} |->
            IF GeN(r1, d) THEN DivStep(n, d, i - 1, Shl1(q, 1), SubN(r1, d))
            ELSE DivStep(n, d, i - 1, Shl1(q, 0), r1)])

\* uN::wrapping_div and uN::wrapping_rem for d # 0
unsigned_div_rem(n, d) == DivStep(n, d, 8 * Len(n) - 1, ZeroN(Len(n)), ZeroN(Len(n)))

\* iN::wrapping_div and iN::wrapping_rem for d # 0: the quotient truncates
\* towards zero and the remainder has the sign of the dividend
signed_div_rem(n, d) ==
    With([u \in {unsigned_div_rem(IF IsNegN(n) THEN NegN(n) ELSE n,
                                  IF IsNegN(d) THEN NegN(d) ELSE d)} |->
        [q |-> IF IsNegN(n) # IsNegN(d) THEN NegN(u.q) ELSE u.q,
         r |-> IF IsNegN(n) THEN NegN(u.r) ELSE u.r]])

-----------------------------------------------------------------------------
(* Tokens (src/src/token.rs)                                               *)

\* Token::default(): what the scanner holds before its first token
DefaultToken ==
    [type |-> "INSTRUCTION", value |-> "INT", name |-> "int", int |-> Z4, prec |-> -1]

\* Token::new_token
new_token(t, v, n) == [DefaultToken EXCEPT !.type = t, !.value = v, !.name = n]

\* Token::new_int_token
new_int_token(n, iv) ==
    [DefaultToken EXCEPT !.type = "IMMEDIATE_DATA", !.value = "INTEGER_LITERAL",
                         !.name = n, !.int = iv]

\* Token::new_symbol_token
new_symbol_token(v, n, p) ==
    [DefaultToken EXCEPT !.type = "SYMBOL", !.value = v, !.name = n, !.prec = p]

\* Token::set_token_type
set_token_type(tok, t) == [tok EXCEPT !.type = t]

\* Token::set_int_value: stores `int_value as u32`; ok is FALSE where it panics
set_int_value(tok, iv) ==
    [ok |-> tok.type = "IMMEDIATE_DATA", tok |-> [tok EXCEPT !.int = iv]]

-----------------------------------------------------------------------------
(* The scanner (src/src/scanner.rs): a source file is a sequence of        *)
(* one-character strings                                                    *)

\* char::default(), and the byte a failed read leaves in get_peek_char's buffer
Nul == "U+0000"

\* std::u8::MAX as a char
ByteMax == "U+00FF"

\* std::char::MAX
CharMax == "U+10FFFF"

\* the ASCII characters 32 .. 126 (the grave accent by its code point)
Printable ==
    <<" ", "!", "\"", "#", "$", "%", "&", "'", "(", ")", "*", "+", ",", "-", ".", "/",
      "0", "1", "2", "3", "4", "5", "6", "7", "8", "9", ":", ";", "<", "=", ">", "?",
      "@", "A", "B", "C", "D", "E", "F", "G", "H", "I", "J", "K", "L", "M", "N", "O",
      "P", "Q", "R", "S", "T", "U", "V", "W", "X", "Y", "Z", "[", "\\", "]", "^", "_",
      "U+0060", "a", "b", "c", "d", "e", "f", "g", "h", "i", "j", "k", "l", "m", "n", "o",
      "p", "q", "r", "s", "t", "u", "v", "w", "x", "y", "z", "{", "|", "}", "~">>

\* the code point of a char, which is what `<=` and `>=` on chars compare
Code(c) ==
    CASE c = Nul -> 0
      [] c = "\t" -> 9
      [] c = "\n" -> 10
      [] c = "\r" -> 13
      [] c = ByteMax -> 255
      [] c = CharMax -> 1114111
      [] OTHER -> 31 + (CHOOSE k \in 1..Len(Printable) : Printable[k] = c)

is_ascii_whitespace(c) == Code(c) \in {9, 10, 12, 13, 32}
is_ascii_digit(c) == Code(c) \in 48..57
is_ascii_hexdigit(c) == Code(c) \in (48..57) \cup (65..70) \cup (97..102)
is_ascii_alphabetic(c) == Code(c) \in (65..90) \cup (97..122)

\* char::to_lowercase on the chars an identifier holds
LowerChar(c) == IF Code(c) \in 65..90 THEN Printable[Code(c) + 1] ELSE c

\* the String of a buffer of chars
RECURSIVE Text(_)
Text(chars) == IF chars = <<>> THEN "" ELSE Head(chars) \o Text(Tail(chars))

\* String::to_lowercase
to_lowercase(chars) == Text([k \in 1..Len(chars) |-> LowerChar(chars[k])])

\* char::to_digit(16)
to_digit(c) ==
    IF is_ascii_digit(c) THEN Code(c) - 48 ELSE Code(LowerChar(c)) - 87

\* u32::from_str_radix from the i-th digit on, acc being the value so far;
\* ok is FALSE where it returns Err
RECURSIVE ParseDigits(_, _, _, _)
ParseDigits(digits, radix, i, acc) ==
    IF i > Len(digits) THEN [ok |-> TRUE, v |-> acc]
    ELSE IF ~is_ascii_hexdigit(digits[i]) \/ to_digit(digits[i]) >= radix
         THEN [ok |-> FALSE, v |-> acc]
    ELSE With([scaled \in {overflowing_mul(acc, B4(radix))} |->
           With([sum \in {overflowing_add(scaled.v, B4(to_digit(digits[i])))} |->
             IF scaled.o \/ sum.o THEN [ok |-> FALSE, v |-> acc]
             ELSE ParseDigits(digits, radix, i + 1, sum.v)])])

\* u32::from_str_radix
from_str_radix(digits, radix) ==
    IF digits = <<>> THEN [ok |-> FALSE, v |-> Z4] ELSE ParseDigits(digits, radix, 1, Z4)

\* Scanner::new's dictionary: lower-case spelling -> <<type, value>>
dictionary_ ==
    LET instructions ==
            {<<"mov", "MOV">>, <<"movzx", "MOVZX">>, <<"movsx", "MOVSX">>, <<"add", "ADD">>,
             <<"sub", "SUB">>, <<"inc", "INC">>, <<"dec", "DEC">>, <<"mul", "MUL">>,
             <<"imul", "IMUL">>, <<"div", "DIV">>, <<"idiv", "IDIV">>, <<"and", "AND">>,
             <<"or", "OR">>, <<"xor", "XOR">>, <<"not", "NOT">>, <<"neg", "NEG">>,
             <<"push", "PUSH">>, <<"pop", "POP">>, <<"shl", "SHL">>, <<"sal", "SHL">>,
             <<"shr", "SHR">>, <<"sar", "SAR">>, <<"cmp", "CMP">>, <<"jmp", "JMP">>,
             <<"je", "JE">>, <<"jz", "JE">>, <<"jne", "JNE">>, <<"jnz", "JNE">>,
             <<"jg", "JG">>, <<"jnle", "JG">>, <<"jge", "JGE">>, <<"jnl", "JGE">>,
             <<"jl", "JL">>, <<"jnge", "JL">>, <<"jle", "JLE">>, <<"jng", "JLE">>,
             <<"ja", "JA">>, <<"jnbe", "JA">>, <<"jae", "JAE">>, <<"jnb", "JAE">>,
             <<"jb", "JB">>, <<"jnae", "JB">>, <<"jbe", "JBE">>, <<"jna", "JBE">>,
             <<"call", "CALL">>, <<"ret", "RET">>, <<"enter", "ENTER">>, <<"leave", "LEAVE">>}
        registers ==
            {<<"eax", "EAX">>, <<"ax", "AX">>, <<"ah", "AH">>, <<"al", "AL">>,
             <<"ebx", "EBX">>, <<"bx", "BX">>, <<"bh", "BH">>, <<"bl", "BL">>,
             <<"ecx", "ECX">>, <<"cx", "CX">>, <<"ch", "CH">>, <<"cl", "CL">>,
             <<"edx", "EDX">>, <<"dx", "DX">>, <<"dh", "DH">>, <<"dl", "DL">>,
             <<"esi", "ESI">>, <<"si", "SI">>, <<"edi", "EDI">>, <<"di", "DI">>,
             <<"esp", "ESP">>, <<"sp", "SP">>, <<"ebp", "EBP">>, <<"bp", "BP">>}
        keywords ==
            {<<"ptr", "PTR">>, <<"byte", "BYTE">>, <<"word", "WORD">>, <<"dword", "DWORD">>}
    IN  [w \in {e[1] : e \in instructions \cup registers \cup keywords} |->
            IF \E e \in instructions : e[1] = w
            THEN <<"INSTRUCTION", (CHOOSE e \in instructions : e[1] = w)[2]>>
            ELSE IF \E e \in registers : e[1] = w
            THEN <<"REGISTER", (CHOOSE e \in registers : e[1] = w)[2]>>
            ELSE <<"KEYWORD", (CHOOSE e \in keywords : e[1] = w)[2]>>]

\* Scanner::new on a file holding `file`; pos is the file's read position and ok
\* is FALSE once the scanner has panicked
NewScanner(file) ==
    [file |-> file, pos |-> 0, current_char_ |-> Nul, state_ |-> "NONE",
     token_ |-> DefaultToken, buffer_ |-> <<>>, eof_flag_ |-> FALSE, ok |-> TRUE]

\* Scanner::make_token, make_int_token and make_symbol_token
make_token(s, token) == [s EXCEPT !.token_ = token, !.buffer_ = <<>>, !.state_ = "NONE"]

\* Scanner::error_token
error_token(s) == [s EXCEPT !.ok = FALSE]

\* Scanner::get_next_char
get_next_char(s) ==
    IF s.pos < Len(s.file)
    THEN [s EXCEPT !.current_char_ = s.file[s.pos + 1], !.pos = s.pos + 1]
    ELSE [s EXCEPT !.eof_flag_ = TRUE, !.current_char_ = CharMax]

\* Scanner::get_peek_char: a byte that was read is overwritten with u8::MAX
\* before it is returned, and the seek back happens after a failed read too
get_peek_char(s) ==
    IF s.pos < Len(s.file) THEN [s |-> s, ch |-> ByteMax]
    ELSE IF s.pos = 0 THEN [s |-> error_token([s EXCEPT !.eof_flag_ = TRUE]), ch |-> Nul]
    ELSE [s |-> [s EXCEPT !.eof_flag_ = TRUE, !.pos = s.pos - 1], ch |-> Nul]

\* Scanner::add_to_buffer
add_to_buffer(s, ch) == [s EXCEPT !.buffer_ = Append(s.buffer_, ch)]

\* the `while` of handle_comment and handle_directive: to the end of the line
RECURSIVE SkipLine(_)
SkipLine(s) ==
    IF s.current_char_ # "\n" /\ ~s.eof_flag_ THEN SkipLine(get_next_char(s))
    ELSE IF ~s.eof_flag_ THEN get_next_char(s) ELSE s

\* Scanner::handle_comment
handle_comment(s) == IF s.current_char_ = ";" THEN SkipLine(get_next_char(s)) ELSE s

\* Scanner::handle_directive
handle_directive(s) == IF s.current_char_ = "." THEN SkipLine(get_next_char(s)) ELSE s

\* the `while` of Scanner::preprocess over white space
RECURSIVE SkipWhitespace(_)
SkipWhitespace(s) ==
    IF is_ascii_whitespace(s.current_char_) /\ ~s.eof_flag_
    THEN SkipWhitespace(get_next_char(s)) ELSE s

\* Scanner::preprocess
RECURSIVE scanner_preprocess(_)
scanner_preprocess(s) ==
    With([t \in {handle_comment(handle_directive(SkipWhitespace(s)))} |->
        IF ~(is_ascii_whitespace(t.current_char_) \/ t.current_char_ \in {";", "."})
           \/ t.eof_flag_
        THEN t ELSE scanner_preprocess(t)])

\* Scanner::handle_eof_state
handle_eof_state(s) == make_token(s, new_token("END_OF_FILE", "END_OF_FILE", "END_OF_FILE"))

\* the `while` of handle_digit, handle_xdigit and handle_odigit
RECURSIVE TakeWhile(_, _)
TakeWhile(s, class) ==
    IF Code(s.current_char_) \in class
    THEN TakeWhile(get_next_char(add_to_buffer(s, s.current_char_)), class) ELSE s

\* Scanner::handle_digit
handle_digit(s) ==
    TakeWhile(get_next_char(add_to_buffer(s, s.current_char_)), 48..57)

\* Scanner::handle_xdigit
handle_xdigit(s) ==
    IF is_ascii_hexdigit(s.current_char_)
    THEN TakeWhile(s, (48..57) \cup (65..70) \cup (97..102)) ELSE error_token(s)

\* Scanner::handle_odigit
handle_odigit(s) ==
    IF Code(s.current_char_) \in 48..55 THEN TakeWhile(s, 48..55) ELSE error_token(s)

\* the first `if` of handle_immedidate_data_state: the scanner it leaves and
\* whether the literal was taken for a hexadecimal one
HexPrefix(s) ==
    IF s.current_char_ # "0" THEN [s |-> s, hex |-> FALSE]
    ELSE With([p1 \in {get_peek_char(s)} |->
           IF ~p1.s.ok THEN [s |-> p1.s, hex |-> FALSE]
           ELSE IF p1.ch = "x" THEN [s |-> get_next_char(get_next_char(p1.s)), hex |-> TRUE]
           ELSE With([p2 \in {get_peek_char(p1.s)} |->
                  IF p2.s.ok /\ p2.ch = "X"
                  THEN [s |-> get_next_char(get_next_char(p2.s)), hex |-> TRUE]
                  ELSE [s |-> p2.s, hex |-> FALSE]])])

\* the second `if`: whether the literal was taken for an octal one
OctalPrefix(s) ==
    IF s.current_char_ # "0" THEN [s |-> s, octal |-> FALSE]
    ELSE With([p1 \in {get_peek_char(s)} |->
           IF ~p1.s.ok \/ ~(Code(p1.ch) >= 48) THEN [s |-> p1.s, octal |-> FALSE]
           ELSE With([p2 \in {get_peek_char(p1.s)} |->
                  IF p2.s.ok /\ Code(p2.ch) <= 55
                  THEN [s |-> get_next_char(p2.s), octal |-> TRUE]
                  ELSE [s |-> p2.s, octal |-> FALSE]])])

\* Scanner::handle_immedidate_data_state
handle_immedidate_data_state(s) ==
    With([h \in {HexPrefix(s)} |->
      IF ~h.s.ok THEN h.s
      ELSE With([o \in {OctalPrefix(h.s)} |->
        IF ~o.s.ok THEN o.s
        ELSE With([number_base \in {IF o.octal THEN 8 ELSE IF h.hex THEN 16 ELSE 10} |->
          With([t \in {CASE number_base = 10 -> handle_digit(o.s)
                         [] number_base = 16 -> handle_xdigit(o.s)
                         [] number_base = 8 -> handle_odigit(o.s)} |->
            IF ~t.ok THEN t
            ELSE With([value \in {from_str_radix(t.buffer_, number_base)} |->
              IF ~value.ok THEN error_token(t)
              ELSE make_token(t, new_int_token(Text(t.buffer_), value.v))])])])])])

\* Scanner::handle_identifier_state
handle_identifier_state(s) ==
    With([t \in {TakeWhile(get_next_char(add_to_buffer(s, s.current_char_)),
                           (48..57) \cup (65..90) \cup (97..122) \cup {95})} |->
      With([word \in {to_lowercase(t.buffer_)} |->
        make_token(t, IF word \in DOMAIN dictionary_
                      THEN new_token(dictionary_[word][1], dictionary_[word][2],
                                     Text(t.buffer_))
                      ELSE new_token("LABEL", "LABEL", Text(t.buffer_)))])])

\* Scanner::handle_symbol_state
handle_symbol_state(s) ==
    LET symbols == [c \in {"+", "-", "*", ",", "[", "]", ":"} |->
                       CASE c = "+" -> <<"PLUS", 10>>
                         [] c = "-" -> <<"MINUS", 10>>
                         [] c = "*" -> <<"TIMES", 20>>
                         [] c = "," -> <<"COMMA", -1>>
                         [] c = "[" -> <<"LBRACK", -1>>
                         [] c = "]" -> <<"RBRACK", -1>>
                         [] c = ":" -> <<"COLON", -1>>]
        ch == s.current_char_
    IN  IF ch \notin DOMAIN symbols THEN error_token(s)
        ELSE get_next_char(make_token(s, new_symbol_token(symbols[ch][1], ch,
                                                          symbols[ch][2])))

\* one turn of the `match self.state_` that runs the state's handler
HandleState(s) ==
    CASE s.state_ = "NONE" -> get_next_char(s)
      [] s.state_ = "END_OF_FILE" -> handle_eof_state(s)
      [] s.state_ = "IDENTIFIER" -> handle_identifier_state(s)
      [] s.state_ = "IMMEDIATE_DATA" -> handle_immedidate_data_state(s)
      [] s.state_ = "SYMBOL" -> handle_symbol_state(s)

\* the `match self.state_` that follows it: the state of the next token
NextState(s) ==
    IF ~s.ok \/ s.state_ # "NONE" THEN s
    ELSE With([t \in {scanner_preprocess(s)} |->
           [t EXCEPT !.state_ =
               IF t.eof_flag_ THEN "END_OF_FILE"
               ELSE IF is_ascii_alphabetic(t.current_char_) \/ t.current_char_ = "_"
               THEN "IDENTIFIER"
               ELSE IF is_ascii_digit(t.current_char_) THEN "IMMEDIATE_DATA"
               ELSE "SYMBOL"]])

\* Scanner::get_next_token: the scanner with token_ the next token
RECURSIVE get_next_token(_)
get_next_token(s) ==
    With([t \in {NextState(HandleState(s))} |->
        IF ~t.ok \/ s.state_ # "NONE" THEN t ELSE get_next_token(t)])

\* the tokens VM::preprocess pushes while it drains the scanner: up to the
\* END_OF_FILE token; ok is FALSE where the scanner panics
RECURSIVE Drain(_, _)
Drain(s, tokens) ==
    With([t \in {get_next_token(s)} |->
        IF ~t.ok THEN [ok |-> FALSE, tokens |-> tokens]
        ELSE IF t.token_.type = "END_OF_FILE" THEN [ok |-> TRUE, tokens |-> tokens]
        ELSE Drain(t, Append(tokens, t.token_))])

\* the token stream of a source file
TokenStream(file) == Drain(NewScanner(file), <<>>)

-----------------------------------------------------------------------------
(* The machine: the fields of VM that a handler reads and writes           *)

RegNames == {"EAX", "EBX", "ECX", "EDX", "ESI", "EDI", "ESP", "EBP"}

\* the machine state held by the variables
Cur ==
    [eip |-> eip, reg |-> reg, cf |-> cf, zf |-> zf, sf |-> sf, of |-> of,
     stack |-> stack, memory |-> memory, depth |-> depth, status |-> status]

Running(m) == m.status = "running"

\* panic!: the process aborts where it stands
Panic(m) == [m EXCEPT !.status = "panic"]

\* a byte of one of the two [u8; MAX] arrays
ByteAt(arr, a) == IF a \in DOMAIN arr THEN arr[a] ELSE 0

\* the array with the n low bytes of v stored at a .. a+n-1
StoreBytes(arr, a, n, v) ==
    LET new(x) == IF x \in a..(a + n - 1) THEN v[x - a + 1] ELSE arr[x]
        dom    == {x \in DOMAIN arr \cup a..(a + n - 1) : new(x) # 0}
    IN  [x \in dom |-> new(x)]

\* self.text[i] exists
InText(m) == m.eip[3] = 0 /\ m.eip[4] = 0 /\ Val24(m.eip) < Len(text)

\* self.text[self.get_eip()], where it exists
Tok(m) == text[Val24(m.eip) + 1]

\* self.text[self.get_eip() - 1], where it exists
PrevTok(m) == text[Val24(m.eip)]

\* VM::go_from_here: eip += displacement in i32, then back to u32
go_from_here(m, d) ==
    IF ~Running(m) THEN m
    ELSE IF signed_add_overflows(m.eip, d) /\ build = "debug" THEN Panic(m)
    ELSE LET s == AddC(m.eip, d, 0).v
         IN  IF IsNeg(s) THEN Panic(m) ELSE [m EXCEPT !.eip = s]

\* VM::expect_token_type: a mismatch is error_report, which panics
expect_token_type(m, t, advance) ==
    IF ~Running(m) THEN m
    ELSE IF ~InText(m) THEN Panic(m)
    ELSE IF Tok(m).type # t THEN Panic(m)
    ELSE IF advance THEN go_from_here(m, B4(1)) ELSE m

\* VM::expect_token_value
expect_token_value(m, v, advance) ==
    IF ~Running(m) THEN m
    ELSE IF ~InText(m) THEN Panic(m)
    ELSE IF Tok(m).value # v THEN Panic(m)
    ELSE IF advance THEN go_from_here(m, B4(1)) ELSE m

\* VM::validate_token_type / VM::validate_token_value: hit is the answer, m the
\* machine after it (advanced on a hit when asked, aborted if text[eip] is missing)
validate_token_type(m, t, advance) ==
    IF ~Running(m) THEN [m |-> m, hit |-> FALSE]
    ELSE IF ~InText(m) THEN [m |-> Panic(m), hit |-> FALSE]
    ELSE IF Tok(m).type # t THEN [m |-> m, hit |-> FALSE]
    ELSE [m |-> IF advance THEN go_from_here(m, B4(1)) ELSE m, hit |-> TRUE]

validate_token_value(m, v, advance) ==
    IF ~Running(m) THEN [m |-> m, hit |-> FALSE]
    ELSE IF ~InText(m) THEN [m |-> Panic(m), hit |-> FALSE]
    ELSE IF Tok(m).value # v THEN [m |-> m, hit |-> FALSE]
    ELSE [m |-> IF advance THEN go_from_here(m, B4(1)) ELSE m, hit |-> TRUE]

-----------------------------------------------------------------------------
(* Places: the (pointer, start, size) triples of the operand decoder        *)

NoPlace == [kind |-> "none", name |-> "", start |-> 0, size |-> 0, bytes |-> Z4]

RegPlace(n, st, sz) == [NoPlace EXCEPT !.kind = "reg", !.name = n, !.start = st, !.size = sz]
MemPlace(a, sz)     == [NoPlace EXCEPT !.kind = "mem", !.start = a, !.size = sz]
StackPlace(a, sz)   == [NoPlace EXCEPT !.kind = "stack", !.start = a, !.size = sz]
ImmPlace(b, sz)     == [NoPlace EXCEPT !.kind = "imm", !.bytes = b, !.size = sz]

\* the match of VM::parse_register
RegisterTable ==
    [EAX |-> RegPlace("EAX", 0, 4), AX |-> RegPlace("EAX", 0, 2),
     AH  |-> RegPlace("EAX", 1, 1), AL |-> RegPlace("EAX", 0, 1),
     EBX |-> RegPlace("EBX", 0, 4), BX |-> RegPlace("EBX", 0, 2),
     BH  |-> RegPlace("EBX", 1, 1), BL |-> RegPlace("EBX", 0, 1),
     ECX |-> RegPlace("ECX", 0, 4), CX |-> RegPlace("ECX", 0, 2),
     CH  |-> RegPlace("ECX", 1, 1), CL |-> RegPlace("ECX", 0, 1),
     EDX |-> RegPlace("EDX", 0, 4), DX |-> RegPlace("EDX", 0, 2),
     DH  |-> RegPlace("EDX", 1, 1), DL |-> RegPlace("EDX", 0, 1),
     ESI |-> RegPlace("ESI", 0, 4), SI |-> RegPlace("ESI", 0, 2),
     EDI |-> RegPlace("EDI", 0, 4), DI |-> RegPlace("EDI", 0, 2),
     ESP |-> RegPlace("ESP", 0, 4), SP |-> RegPlace("ESP", 0, 2),
     EBP |-> RegPlace("EBP", 0, 4), BP |-> RegPlace("EBP", 0, 2)]

\* a slice test that lets every slice of the stack array through
InBounds_StackUnchecked(p) ==
    CASE p.kind = "reg" -> p.start + p.size <= 4
      [] p.kind = "imm" -> p.start + p.size <= 4
      [] p.kind = "mem" -> p.start + p.size <= MAX
      [] p.kind = "stack" -> TRUE
      [] OTHER -> FALSE

\* the slice (*pointer)[start..start + size] lies inside the container
InBounds(p) ==
    CASE p.kind = "reg" -> p.start + p.size <= 4
      [] p.kind = "imm" -> p.start + p.size <= 4
      [] p.kind \in {"mem", "stack"} -> p.start + p.size <= MAX
      [] OTHER -> FALSE

\* byte k (from 0) of the slice a place names
PlaceByte(m, p, k) ==
    CASE p.kind = "reg"   -> m.reg[p.name][p.start + k + 1]
      [] p.kind = "imm"   -> p.bytes[p.start + k + 1]
      [] p.kind = "mem"   -> ByteAt(m.memory, p.start + k)
      [] p.kind = "stack" -> ByteAt(m.stack, p.start + k)

\* VM::get_value: the slice, zero-extended to a u32 (the caller checks InBounds)
get_value(m, p) == [k \in 1..4 |-> IF k <= p.size THEN PlaceByte(m, p, k - 1) ELSE 0]

\* a set_value that stores the whole u32 from the start of the container
set_value_WholeWord(m, p, v) ==
    IF ~Running(m) THEN m
    ELSE IF ~InBounds(p) THEN Panic(m)
    ELSE CASE p.kind = "reg" -> [m EXCEPT !.reg[p.name] = v]
           [] p.kind = "mem" -> [m EXCEPT !.memory = StoreBytes(@, p.start, 4, v)]
           [] p.kind = "stack" -> [m EXCEPT !.stack = StoreBytes(@, p.start, 4, v)]
           [] OTHER -> m

\* VM::set_value: the low `size` bytes of v into the slice
set_value(m, p, v) ==
    IF ~Running(m) THEN m
    ELSE IF ~InBounds(p) THEN Panic(m)
    ELSE CASE p.kind = "reg" ->
                [m EXCEPT !.reg[p.name] =
                    [k \in 1..4 |-> IF k - 1 \in p.start..(p.start + p.size - 1)
                                    THEN v[k - p.start] ELSE @[k]]]
           [] p.kind = "mem" ->
                [m EXCEPT !.memory = StoreBytes(@, p.start, p.size, v)]
           [] p.kind = "stack" ->
                [m EXCEPT !.stack = StoreBytes(@, p.start, p.size, v)]
           [] OTHER -> m

-----------------------------------------------------------------------------
(* The operand decoder.  A decoder returns [m |-> machine, p |-> place]; an *)
(* Err result is unwrapped by every caller, so it is a panic here.          *)

Decoded(m, p) == [m |-> m, p |-> p]

\* VM::parse_register
parse_register(m) ==
    IF ~Running(m) THEN Decoded(m, NoPlace)
    ELSE With([m1 \in {go_from_here(m, B4(1))} |->
            IF ~Running(m1) THEN Decoded(m1, NoPlace)
            ELSE IF ~InText(m) THEN Decoded(Panic(m1), NoPlace)
            ELSE IF PrevTok(m1).value \in DOMAIN RegisterTable
                 THEN Decoded(m1, RegisterTable[PrevTok(m1).value])
                 ELSE Decoded(Panic(m1), NoPlace)])

\* a size inferred from the magnitude alone, whatever the sign
ImmediateSize_ByMagnitude(neg, mag) ==
    IF mag[2] = 0 /\ mag[3] = 0 /\ mag[4] = 0 THEN 1
    ELSE IF mag[3] = 0 /\ mag[4] = 0 THEN 2
    ELSE 4

\* the size VM::parse_immediate_data infers for the i64 value (-1)^neg * mag;
\* 0 where the value is below i32::MIN and the decoder panics
ImmediateSize(neg, mag) ==
    IF ~neg \/ mag = Z4
    THEN IF mag[2] = 0 /\ mag[3] = 0 /\ mag[4] = 0 THEN 1
         ELSE IF mag[3] = 0 /\ mag[4] = 0 THEN 2
         ELSE 4
    ELSE IF mag[2] = 0 /\ mag[3] = 0 /\ mag[4] = 0 /\ mag[1] <= 128 THEN 1
         ELSE IF mag[3] = 0 /\ mag[4] = 0
                 /\ (mag[2] < 128 \/ (mag[2] = 128 /\ mag[1] = 0)) THEN 2
         ELSE IF mag[4] < 128
                 \/ (mag[4] = 128 /\ mag[1] = 0 /\ mag[2] = 0 /\ mag[3] = 0) THEN 4
         ELSE 0

\* VM::parse_immediate_data
parse_immediate_data(m) ==
    With([s \in {validate_token_value(m, "MINUS", TRUE)} |->
        IF ~Running(s.m) THEN Decoded(s.m, NoPlace)
        ELSE IF ~InText(s.m) THEN Decoded(Panic(s.m), NoPlace)
        ELSE IF Tok(s.m).type # "IMMEDIATE_DATA" THEN Decoded(Panic(s.m), NoPlace)
        ELSE With([m2 \in {go_from_here(s.m, B4(1))} |->
                With([size \in {ImmediateSize(s.hit, Tok(s.m).int)} |->
                    IF ~Running(m2) THEN Decoded(m2, NoPlace)
                    ELSE IF size = 0 THEN Decoded(Panic(m2), NoPlace)
                    ELSE IF s.hit
                         THEN Decoded(m2, ImmPlace(overflowing_neg(Tok(s.m).int).v, size))
                         ELSE Decoded(m2, ImmPlace(Tok(s.m).int, size))])])])

\* Token::get_precedence does not panic on text[eip]
HasPrecedence(m) == InText(m) /\ Tok(m).type = "SYMBOL"

\* the `lhs op rhs` of VM::parse_binary_operation: ok is FALSE where the
\* arithmetic overflows (a panic in a debug build)
AddressArith(operation, lhs, rhs) ==
    With([r \in {CASE operation = "PLUS"  -> overflowing_add(lhs, rhs)
                   [] operation = "MINUS" -> overflowing_sub(lhs, rhs)
                   [] operation = "TIMES" -> overflowing_mul(lhs, rhs)
                   [] OTHER -> [v |-> <<255, 255, 255, 255>>, o |-> FALSE]} |->
        [v |-> r.v, ok |-> ~r.o]])

\* the atom after an operator in VM::parse_binary_operation: [m, v]
AddressOperand(m) ==
    IF ~Running(m) THEN [m |-> m, v |-> Z4]
    ELSE IF ~InText(m) THEN [m |-> Panic(m), v |-> Z4]
    ELSE IF Tok(m).type = "REGISTER"
         THEN With([r \in {parse_register(m)} |->
                 [m |-> r.m, v |-> IF Running(r.m) THEN get_value(r.m, r.p) ELSE Z4]])
    ELSE IF Tok(m).type = "IMMEDIATE_DATA"
         THEN [m |-> go_from_here(m, B4(1)), v |-> Tok(m).int]
    ELSE [m |-> Panic(m), v |-> Z4]

\* VM::parse_binary_operation, one turn of its loop per call: [m, v]
RECURSIVE parse_binary_operation(_, _, _, _)
parse_binary_operation(m, lhs, result, precedence) ==
    IF ~Running(m) THEN [m |-> m, v |-> result]
    ELSE IF ~HasPrecedence(m) THEN [m |-> Panic(m), v |-> result]
    ELSE IF Tok(m).prec < precedence THEN [m |-> m, v |-> result]
    ELSE LET current_precedence == Tok(m).prec
             operation == Tok(m).value
         IN  With([a \in {AddressOperand(go_from_here(m, B4(1)))} |->
                IF ~Running(a.m) THEN [m |-> a.m, v |-> result]
                ELSE IF ~HasPrecedence(a.m) THEN [m |-> Panic(a.m), v |-> result]
                ELSE With([r \in {IF current_precedence < Tok(a.m).prec
                                  THEN parse_binary_operation(a.m, a.v, a.v,
                                                              current_precedence + 1)
                                  ELSE a} |->
                        With([x \in {AddressArith(operation, lhs, r.v)} |->
                            IF ~Running(r.m) THEN [m |-> r.m, v |-> result]
                            ELSE IF ~x.ok /\ build = "debug"
                                 THEN [m |-> Panic(r.m), v |-> result]
                            ELSE parse_binary_operation(r.m, lhs, x.v, precedence)])])])

\* VM::parse_address: [m, v]
parse_address(m) ==
    IF ~Running(m) THEN [m |-> m, v |-> Z4]
    ELSE IF ~InText(m) THEN [m |-> Panic(m), v |-> Z4]
    ELSE With([first \in {
                 IF Tok(m).type \in {"REGISTER", "IMMEDIATE_DATA"} THEN AddressOperand(m)
                 ELSE IF Tok(m).value = "MINUS"
                      THEN With([m1 \in {go_from_here(m, B4(2))} |->
                              IF ~Running(m1) THEN [m |-> m1, v |-> Z4]
                              ELSE IF Val24(m1.eip) > Len(text)
                                      \/ PrevTok(m1).type # "IMMEDIATE_DATA"
                                   THEN [m |-> Panic(m1), v |-> Z4]
                              ELSE [m |-> m1, v |-> overflowing_neg(PrevTok(m1).int).v]])
                 ELSE [m |-> Panic(m), v |-> Z4]} |->
            parse_binary_operation(first.m, first.v, first.v, 0)])

\* VM::parse_memory
parse_memory(m) ==
    IF ~Running(m) THEN Decoded(m, NoPlace)
    ELSE IF ~InText(m) THEN Decoded(Panic(m), NoPlace)
    ELSE LET size == CASE Tok(m).value = "BYTE" -> 1
                       [] Tok(m).value = "WORD" -> 2
                       [] Tok(m).value = "DWORD" -> 4
                       [] OTHER -> 0
         IN  With([a \in {parse_address(
                              expect_token_value(
                                expect_token_value(go_from_here(m, B4(1)), "PTR", TRUE),
                                "LBRACK", TRUE))} |->
                With([m3 \in {expect_token_value(a.m, "RBRACK", TRUE)} |->
                    IF Running(m3) THEN Decoded(m3, MemPlace(AsIndex(a.v), size))
                    ELSE Decoded(m3, NoPlace)])])

\* VM::parse_source
parse_source(m) ==
    IF ~Running(m) THEN Decoded(m, NoPlace)
    ELSE IF ~InText(m) THEN Decoded(Panic(m), NoPlace)
    ELSE IF Tok(m).value \in {"BYTE", "WORD", "DWORD"} THEN parse_memory(m)
    ELSE IF Tok(m).type = "REGISTER" THEN parse_register(m)
    ELSE IF Tok(m).type = "IMMEDIATE_DATA" \/ Tok(m).value = "MINUS"
         THEN parse_immediate_data(m)
    ELSE Decoded(Panic(m), NoPlace)

\* VM::parse_destination
parse_destination(m) ==
    IF ~Running(m) THEN Decoded(m, NoPlace)
    ELSE IF ~InText(m) THEN Decoded(Panic(m), NoPlace)
    ELSE IF Tok(m).value \in {"BYTE", "WORD", "DWORD"} THEN parse_memory(m)
    ELSE IF Tok(m).type = "REGISTER" THEN parse_register(m)
    ELSE Decoded(Panic(m), NoPlace)

-----------------------------------------------------------------------------
(* Instruction handlers: each maps the machine at dispatch to the machine   *)
(* when the handler returns or panics.                                      *)

\* `&`, `|`, `^` on one bit
BitOp(mnemonic, x, y) ==
    CASE mnemonic = "AND" -> x * y
      [] mnemonic = "OR"  -> x + y - x * y
      [] mnemonic = "XOR" -> (x + y) % 2

\* `&`, `|`, `^` on two u32
Bitwise(mnemonic, a, b) ==
    [k \in 1..4 |->
        LET bit(i) == BitOp(mnemonic, (a[k] \div (2^i)) % 2, (b[k] \div (2^i)) % 2) * (2^i)
        IN  bit(0) + bit(1) + bit(2) + bit(3) + bit(4) + bit(5) + bit(6) + bit(7)]

\* a mov that reads its immediate at the inferred size, zero-extended
mov_ImmediateAtOwnSize(m) ==
    With([d \in {parse_destination(go_from_here(m, B4(1)))} |->
    With([m2 \in {expect_token_value(d.m, "COMMA", TRUE)} |->
        IF ~Running(m2) THEN m2
        ELSE IF ~InText(m2) THEN Panic(m2)
        ELSE IF Tok(m2).type = "IMMEDIATE_DATA" \/ Tok(m2).value = "MINUS"
             THEN With([data \in {parse_immediate_data(m2)} |->
                     IF ~Running(data.m) THEN data.m
                     ELSE IF d.p.size < data.p.size THEN Panic(data.m)
                     ELSE set_value(data.m, d.p, get_value(data.m, data.p))])
             ELSE With([src \in {parse_source(m2)} |->
                     IF ~Running(src.m) THEN src.m
                     ELSE IF d.p.size # src.p.size THEN Panic(src.m)
                     ELSE IF ~InBounds(src.p) THEN Panic(src.m)
                     ELSE set_value(src.m, d.p, get_value(src.m, src.p))])])])

\* VM::mov
mov(m) ==
    With([d \in {parse_destination(go_from_here(m, B4(1)))} |->
    With([m2 \in {expect_token_value(d.m, "COMMA", TRUE)} |->
        IF ~Running(m2) THEN m2
        ELSE IF ~InText(m2) THEN Panic(m2)
        ELSE IF Tok(m2).type = "IMMEDIATE_DATA" \/ Tok(m2).value = "MINUS"
             THEN With([data \in {parse_immediate_data(m2)} |->
                     IF ~Running(data.m) THEN data.m
                     ELSE IF d.p.size < data.p.size THEN Panic(data.m)
                     ELSE set_value(data.m, d.p, data.p.bytes)])
             ELSE With([src \in {parse_source(m2)} |->
                     IF ~Running(src.m) THEN src.m
                     ELSE IF d.p.size # src.p.size THEN Panic(src.m)
                     ELSE IF ~InBounds(src.p) THEN Panic(src.m)
                     ELSE set_value(src.m, d.p, get_value(src.m, src.p))])])])

\* a set_cf_and_of that takes every size as 4: CF and OF stay as computed on u32
set_cf_and_of_AsDword(m, result, size) ==
    IF ~Running(m) THEN m
    ELSE IF size \in {1, 2, 4} THEN m
    ELSE Panic(m)

\* VM::set_cf_and_of
set_cf_and_of(m, result, size) ==
    LET high(k) == \A j \in (k+1)..4 : result[j] = 0
        \* tmp: i32 lies in the signed range of k bytes
        fits(k) == \/ (\A j \in (k+1)..4 : result[j] = 0) /\ result[k] < 128
                   \/ (\A j \in (k+1)..4 : result[j] = 255) /\ result[k] >= 128
    IN  IF ~Running(m) THEN m
        ELSE IF size \in {1, 2}
             THEN [m EXCEPT !.cf = IF ~high(size) THEN TRUE ELSE @,
                            !.of = IF ~fits(size) THEN TRUE ELSE @]
        ELSE IF size = 4 THEN m
        ELSE Panic(m)

\* VM::set_sf_and_zf
set_sf_and_zf(m, result) ==
    IF ~Running(m) THEN m
    ELSE IF result = Z4 THEN [m EXCEPT !.sf = FALSE, !.zf = TRUE]
    ELSE IF IsNeg(result) THEN [m EXCEPT !.sf = TRUE, !.zf = FALSE]
    ELSE [m EXCEPT !.sf = FALSE, !.zf = FALSE]

\* the match on the mnemonic in VM::binary_operation: the result and the
\* machine with CF and OF set
binary_result(m, mnemonic, first_operand, second_operand, size) ==
    CASE mnemonic = "ADD" ->
            With([pair \in {overflowing_add(first_operand, second_operand)} |->
                [v |-> pair.v,
                 m |-> set_cf_and_of(
                         [m EXCEPT !.cf = pair.o,
                                   !.of = signed_add_overflows(first_operand, second_operand)],
                         pair.v, size)]])
      [] mnemonic = "SUB" ->
            With([pair \in {overflowing_sub(first_operand, second_operand)} |->
                [v |-> pair.v,
                 m |-> set_cf_and_of(
                         [m EXCEPT !.cf = pair.o,
                                   !.of = signed_add_overflows(first_operand, second_operand)],
                         pair.v, size)]])
      [] mnemonic = "AND" ->
            [v |-> Bitwise("AND", first_operand, second_operand),
             m |-> [m EXCEPT !.cf = FALSE, !.of = FALSE]]
      [] mnemonic = "OR" ->
            [v |-> Bitwise("OR", first_operand, second_operand),
             m |-> [m EXCEPT !.cf = FALSE, !.of = FALSE]]
      [] mnemonic = "XOR" ->
            [v |-> Bitwise("XOR", first_operand, second_operand),
             m |-> [m EXCEPT !.cf = FALSE, !.of = FALSE]]
      [] OTHER -> [v |-> <<255, 255, 255, 255>>, m |-> Panic(m)]

\* VM::binary_operation
binary_operation(m) ==
    With([d \in {parse_destination(go_from_here(m, B4(1)))} |->
    With([s \in {parse_source(expect_token_value(d.m, "COMMA", TRUE))} |->
        IF ~Running(s.m) THEN s.m
        ELSE IF s.p.size # 0 /\ d.p.size < s.p.size THEN Panic(s.m)
        ELSE IF ~InBounds(d.p) \/ ~InBounds(s.p) THEN Panic(s.m)
        ELSE With([r \in {binary_result(s.m, Tok(m).value, get_value(s.m, d.p),
                                        get_value(s.m, s.p), d.p.size)} |->
                set_value(set_sf_and_zf(r.m, r.v), d.p, r.v)])])])

\* a stack-pointer move that records its carry or borrow in CF, as `add` does
MoveEsp_SettingCf(m, direction, n) ==
    With([r \in {IF direction = "-" THEN overflowing_sub(m.reg["ESP"], B4(n))
                 ELSE overflowing_add(m.reg["ESP"], B4(n))} |->
        IF ~Running(m) THEN m
        ELSE IF r.o /\ build = "debug" THEN Panic(m)
        ELSE set_value([m EXCEPT !.cf = r.o], RegisterTable["ESP"], r.v)])

\* the stack pointer lowered (direction "-") or raised ("+") by n bytes: the u32
\* arithmetic panics on overflow in a debug build
MoveEsp(m, direction, n) ==
    With([r \in {IF direction = "-" THEN overflowing_sub(m.reg["ESP"], B4(n))
                 ELSE overflowing_add(m.reg["ESP"], B4(n))} |->
        IF ~Running(m) THEN m
        ELSE IF r.o /\ build = "debug" THEN Panic(m)
        ELSE set_value(m, RegisterTable["ESP"], r.v)])

\* VM::push
push(m) ==
    With([s \in {parse_source(go_from_here(m, B4(1)))} |->
    With([m1 \in {MoveEsp(s.m, "-", s.p.size)} |->
        IF ~Running(m1) THEN m1
        ELSE IF ~InBounds(s.p) THEN Panic(m1)
        ELSE set_value(m1, StackPlace(AsIndex(m1.reg["ESP"]), s.p.size),
                       get_value(m1, s.p))])])

\* a pop that always releases a 32-bit item
pop_FourBytes(m) ==
    With([d \in {parse_destination(go_from_here(m, B4(1)))} |->
    With([top \in {StackPlace(AsIndex(d.m.reg["ESP"]), d.p.size)} |->
        IF ~Running(d.m) THEN d.m
        ELSE IF ~InBounds(top) THEN Panic(d.m)
        ELSE MoveEsp(set_value(d.m, d.p, get_value(d.m, top)),
                     "+", 4)])])

\* VM::pop
pop(m) ==
    With([d \in {parse_destination(go_from_here(m, B4(1)))} |->
    With([top \in {StackPlace(AsIndex(d.m.reg["ESP"]), d.p.size)} |->
        IF ~Running(d.m) THEN d.m
        ELSE IF ~InBounds(top) THEN Panic(d.m)
        ELSE MoveEsp(set_value(d.m, d.p, get_value(d.m, top)),
                     "+", d.p.size)])])

\* the conditions with `ja` and `jg` forgetting ZF
jump_taken_WithoutZf(mnemonic, m) ==
    CASE mnemonic = "JMP" -> TRUE
      [] mnemonic = "JE"  -> m.zf
      [] mnemonic = "JNE" -> ~m.zf
      [] mnemonic = "JG"  -> m.sf = m.of
      [] mnemonic = "JGE" -> m.sf = m.of
      [] mnemonic = "JL"  -> m.sf # m.of
      [] mnemonic = "JLE" -> m.zf \/ m.sf # m.of
      [] mnemonic = "JA"  -> ~m.cf
      [] mnemonic = "JAE" -> ~m.cf
      [] mnemonic = "JB"  -> m.cf
      [] mnemonic = "JBE" -> m.cf \/ m.zf
      [] OTHER -> FALSE

\* the conditions of the match in VM::jump
jump_taken(mnemonic, m) ==
    CASE mnemonic = "JMP" -> TRUE
      [] mnemonic = "JE"  -> m.zf
      [] mnemonic = "JNE" -> ~m.zf
      [] mnemonic = "JG"  -> ~m.zf /\ m.sf = m.of
      [] mnemonic = "JGE" -> m.sf = m.of
      [] mnemonic = "JL"  -> m.sf # m.of
      [] mnemonic = "JLE" -> m.zf \/ m.sf # m.of
      [] mnemonic = "JA"  -> ~m.cf /\ ~m.zf
      [] mnemonic = "JAE" -> ~m.cf
      [] mnemonic = "JB"  -> m.cf
      [] mnemonic = "JBE" -> m.cf \/ m.zf
      [] OTHER -> FALSE

\* VM::jump
jump(m) ==
    With([m1 \in {expect_token_type(go_from_here(m, B4(1)), "IMMEDIATE_DATA", FALSE)} |->
        IF ~Running(m1) THEN m1
        ELSE With([m2 \in {go_from_here(m1, B4(1))} |->
                IF jump_taken(Tok(m).value, m2)
                THEN go_from_here(m2, Tok(m1).int) ELSE m2])])

\* self.depth + 1 on a u8
depth_inc(m) ==
    IF ~Running(m) THEN m
    ELSE IF m.depth = 255
         THEN IF build = "debug" THEN Panic(m) ELSE [m EXCEPT !.depth = 0]
    ELSE [m EXCEPT !.depth = @ + 1]

\* VM::call
call(m) ==
    With([m1 \in {expect_token_type(go_from_here(m, B4(1)), "IMMEDIATE_DATA", FALSE)} |->
        IF ~Running(m1) THEN m1
        ELSE With([m3 \in {MoveEsp(go_from_here(m1, B4(1)), "-", 4)} |->
                IF ~Running(m3) THEN m3
                ELSE With([m4 \in {depth_inc(set_value(m3,
                                                        StackPlace(AsIndex(m3.reg["ESP"]), 4),
                                                        m3.eip))} |->
                        go_from_here(m4, Tok(m1).int)])])])

\* VM::ret
ret(m) ==
    With([m1 \in {go_from_here(m, B4(1))} |->
    With([top \in {StackPlace(AsIndex(m1.reg["ESP"]), 4)} |->
    With([m2 \in {IF ~Running(m1) \/ m1.depth <= 1 THEN m1
                  ELSE IF ~InBounds(top) THEN Panic(m1)
                  ELSE MoveEsp([m1 EXCEPT !.eip = get_value(m1, top)],
                               "+", 4)} |->
        IF ~Running(m2) THEN m2
        ELSE IF m2.depth = 0
             THEN IF build = "debug" THEN Panic(m2) ELSE [m2 EXCEPT !.depth = 255]
        ELSE [m2 EXCEPT !.depth = @ - 1]])])])

\* an extension that never copies the sign
Extended_ByZeros(m, p, signed) ==
    [k \in 1..4 |-> IF k <= p.size THEN PlaceByte(m, p, k - 1) ELSE 0]

\* the slice of a place extended to four bytes by its sign (signed) or by zeros
Extended(m, p, signed) ==
    [k \in 1..4 |-> IF k <= p.size THEN PlaceByte(m, p, k - 1)
                    ELSE IF signed /\ PlaceByte(m, p, p.size - 1) >= 128 THEN 255 ELSE 0]

\* VM::movsx (signed = TRUE) and VM::movzx (signed = FALSE)
move_extended(m, signed) ==
    With([d \in {parse_register(
                    expect_token_type(go_from_here(m, B4(1)), "REGISTER", FALSE))} |->
    With([m2 \in {expect_token_value(d.m, "COMMA", TRUE)} |->
        IF ~Running(m2) THEN m2
        ELSE IF ~InText(m2) THEN Panic(m2)
        ELSE IF Tok(m2).type # "REGISTER" /\ Tok(m2).value \notin {"BYTE", "WORD", "DWORD"}
             THEN m2
        ELSE With([s \in {parse_source(m2)} |->
                IF ~Running(s.m) THEN s.m
                ELSE IF d.p.size <= s.p.size THEN Panic(s.m)
                ELSE IF ~InBounds(s.p) THEN Panic(s.m)
                ELSE set_value(s.m, d.p, Extended(s.m, s.p, signed))])])])

\* VM::movsx
movsx(m) == move_extended(m, TRUE)

\* VM::movzx
movzx(m) == move_extended(m, FALSE)

\* the quotient and the remainder VM::div computes for a divisor of `size`
\* bytes: [ok, q, r] as u32, ok FALSE where the division panics (a zero divisor)
Quotient(m, divisor, size, is_unsigned) ==
    LET pad(b) == [k \in 1..4 |-> IF k <= Len(b) THEN b[k] ELSE 0]
        eax == m.reg["EAX"]
        edx == m.reg["EDX"]
        dividend == CASE size = 1 -> <<eax[1], eax[2]>>
                      [] size = 2 -> <<eax[1], eax[2], edx[1], edx[2]>>
                      [] OTHER    -> eax \o edx
        by == CASE size = 1 -> <<divisor[1], divisor[2]>>
                [] size = 2 -> divisor
                [] OTHER    -> divisor \o Z4
    IN  IF by = ZeroN(Len(by)) THEN [ok |-> FALSE, q |-> Z4, r |-> Z4]
        ELSE With([x \in {IF is_unsigned THEN unsigned_div_rem(dividend, by)
                          ELSE signed_div_rem(dividend, by)} |->
                [ok |-> TRUE, q |-> pad(x.q), r |-> pad(x.r)]])

\* u64 a * b for two u32, as eight little-endian bytes
wide_mul(a, b) ==
    LET term(i, k) == IF k + 1 - i \in 1..4 THEN a[i] * b[k + 1 - i] ELSE 0
        column(k) == term(1, k) + term(2, k) + term(3, k) + term(4, k)
        carry[k \in 0..8] ==
            IF k = 0 THEN 0 ELSE (column(k) + carry[k - 1]) \div 256
    IN  [k \in 1..8 |-> (column(k) + carry[k - 1]) % 256]

\* the flags of the `4 =>` arm of VM::mul, from `result as i64`
set_flags_i64(m, product) ==
    IF product = [k \in 1..8 |-> 0] THEN [m EXCEPT !.sf = FALSE, !.zf = TRUE]
    ELSE IF product[8] >= 128 THEN [m EXCEPT !.sf = TRUE, !.zf = FALSE]
    ELSE [m EXCEPT !.sf = FALSE, !.zf = FALSE]

\* a mul that clears CF and OF
mul_result_FlagsCleared(m, product, size) ==
    LET low  == [k \in 1..4 |-> product[k]]
        high == [k \in 1..4 |-> product[k + 4]]
    IN  CASE size = 1 ->
                set_sf_and_zf(
                  [set_value(m, RegPlace("EAX", 0, 2), low) EXCEPT !.cf = FALSE, !.of = FALSE],
                  low)
          [] size = 2 ->
                set_sf_and_zf(
                  [set_value(set_value(m, RegPlace("EAX", 0, 2), low),
                             RegPlace("EDX", 0, 2), <<low[3], low[4], 0, 0>>)
                      EXCEPT !.cf = FALSE, !.of = FALSE],
                  low)
          [] OTHER ->
                set_flags_i64(
                  [set_value(set_value(m, RegPlace("EAX", 0, 4), low),
                             RegPlace("EDX", 0, 4), high)
                      EXCEPT !.cf = FALSE, !.of = FALSE],
                  product)

\* the three arms of the match in VM::mul, product being the multiplicand
\* times the multiplier
mul_result(m, product, size) ==
    LET low  == [k \in 1..4 |-> product[k]]
        high == [k \in 1..4 |-> product[k + 4]]
    IN  CASE size = 1 ->
                set_sf_and_zf(
                  [set_value(m, RegPlace("EAX", 0, 2), low)
                      EXCEPT !.cf = low[2] # 0 \/ low[3] # 0 \/ low[4] # 0,
                             !.of = low[2] # 0 \/ low[3] # 0 \/ low[4] # 0],
                  low)
          [] size = 2 ->
                set_sf_and_zf(
                  [set_value(set_value(m, RegPlace("EAX", 0, 2), low),
                             RegPlace("EDX", 0, 2), <<low[3], low[4], 0, 0>>)
                      EXCEPT !.cf = low[3] # 0 \/ low[4] # 0,
                             !.of = low[3] # 0 \/ low[4] # 0],
                  low)
          [] OTHER ->
                set_flags_i64(
                  [set_value(set_value(m, RegPlace("EAX", 0, 4), low),
                             RegPlace("EDX", 0, 4), high)
                      EXCEPT !.cf = high # Z4, !.of = high # Z4],
                  product)

\* VM::mul
mul(m) ==
    With([d \in {parse_destination(go_from_here(m, B4(1)))} |->
        IF ~Running(d.m) THEN d.m
        ELSE IF ~InBounds(d.p) THEN Panic(d.m)
        ELSE IF d.p.size \notin {1, 2, 4} THEN d.m
        ELSE With([product \in {wide_mul(get_value(d.m, RegPlace("EAX", 0, d.p.size)),
                                         get_value(d.m, d.p))} |->
                mul_result(d.m, product, d.p.size)])])

\* a \div 2 with bit as the new top bit
Shr1(a, bit) ==
    SubSeq([k \in 1..Len(a) |->
                (a[k] \div 2) + 128 * (IF k = Len(a) THEN bit ELSE a[k + 1] % 2)],
           1, Len(a))

\* a shifted left by n bits, wrapped
RECURSIVE ShlN(_, _)
ShlN(a, n) == IF n = 0 THEN a ELSE ShlN(Shl1(a, 0), n - 1)

\* a shifted right by n bits, the vacated bits being bit
RECURSIVE ShrN(_, _, _)
ShrN(a, n, bit) == IF n = 0 THEN a ELSE ShrN(Shr1(a, bit), n - 1, bit)

\* x as u64 for a u32 x, and (x as i32) as i64 as u64
AsU64(b) == [k \in 1..8 |-> IF k <= 4 THEN b[k] ELSE 0]
AsI64(b) == [k \in 1..8 |-> IF k <= 4 THEN b[k] ELSE IF IsNeg(b) THEN 255 ELSE 0]

\* u64::wrapping_shl, u64::wrapping_shr and i64::wrapping_shr: the count is
\* taken modulo 64
wrapping_shl(a, count) == ShlN(a, count[1] % 64)
wrapping_shr(a, count) == ShrN(a, count[1] % 64, 0)
wrapping_sar(a, count) == ShrN(a, count[1] % 64, a[8] \div 128)

\* a shl whose CF is always clear
shift_result_ShlWithoutCf(m, mnemonic, operand, count, size) ==
    CASE mnemonic = "SHL" ->
            With([result \in {wrapping_shl(AsU64(operand), count)} |->
                [v |-> result,
                 m |-> [m EXCEPT !.cf = FALSE,
                                 !.of = BitOf(result, 8 * size - 1) = 1]]])
      [] mnemonic = "SHR" ->
            With([result \in {wrapping_shr(AsU64(operand), count)} |->
                [v |-> result,
                 m |-> [m EXCEPT !.cf = BitOf(result, 0) = 1,
                                 !.of = BitOf(AsU64(operand), 8 * size - 1) = 1]]])
      [] mnemonic = "SAR" ->
            With([result \in {wrapping_sar(AsI64(operand), count)} |->
                [v |-> result,
                 m |-> [m EXCEPT !.cf = BitOf(result, 0) = 1, !.of = FALSE]]])
      [] OTHER -> [v |-> [k \in 1..8 |-> 255], m |-> [m EXCEPT !.cf = FALSE]]

\* the match on the mnemonic in VM::bitshift: v the u64 result, m the machine
\* with CF and OF set
shift_result(m, mnemonic, operand, count, size) ==
    CASE mnemonic = "SHL" ->
            With([result \in {wrapping_shl(AsU64(operand), count)} |->
                [v |-> result,
                 m |-> [m EXCEPT !.cf = BitOf(result, 8 * size) = 1,
                                 !.of = (BitOf(result, 8 * size - 1) = 1)
                                        # (BitOf(result, 8 * size) = 1)]]])
      [] mnemonic = "SHR" ->
            With([result \in {wrapping_shr(AsU64(operand), count)} |->
                [v |-> result,
                 m |-> [m EXCEPT !.cf = BitOf(result, 0) = 1,
                                 !.of = BitOf(AsU64(operand), 8 * size - 1) = 1]]])
      [] mnemonic = "SAR" ->
            With([result \in {wrapping_sar(AsI64(operand), count)} |->
                [v |-> result,
                 m |-> [m EXCEPT !.cf = BitOf(result, 0) = 1, !.of = FALSE]]])
      [] OTHER -> [v |-> [k \in 1..8 |-> 255], m |-> [m EXCEPT !.cf = FALSE]]

\* VM::bitshift
bitshift(m) ==
    With([d \in {parse_destination(go_from_here(m, B4(1)))} |->
    With([m2 \in {expect_token_type(expect_token_value(d.m, "COMMA", TRUE),
                                    "IMMEDIATE_DATA", FALSE)} |->
        IF ~Running(m2) THEN m2
        ELSE IF ~InBounds(d.p) THEN Panic(m2)
        ELSE With([r \in {shift_result(go_from_here(m2, B4(1)), Tok(m).value,
                                       get_value(m2, d.p), Tok(m2).int, d.p.size)} |->
                set_value(set_sf_and_zf(r.m, [k \in 1..4 |-> r.v[k]]), d.p,
                          [k \in 1..4 |-> r.v[k]])])])])

\* VM::div
div(m) ==
    With([u \in {validate_token_value(m, "MUL", TRUE)} |->
    With([d \in {parse_destination(u.m)} |->
        IF ~Running(d.m) THEN d.m
        ELSE IF ~InBounds(d.p) THEN Panic(d.m)
        ELSE IF d.p.size \notin {1, 2, 4} THEN d.m
        ELSE With([x \in {Quotient(d.m, get_value(d.m, d.p), d.p.size, u.hit)} |->
                IF ~x.ok THEN Panic(d.m)
                ELSE set_value(
                       set_value(d.m, RegPlace("EAX", 0, d.p.size), x.q),
                       IF d.p.size = 1 THEN RegPlace("EDX", 1, 1)
                       ELSE RegPlace("EDX", 0, d.p.size),
                       x.r)])])])

\* an unary_operation whose `dec` steps by two
unary_result_DecByTwo(m, mnemonic, operand, size) ==
    CASE mnemonic = "INC" ->
            [v |-> overflowing_add(operand, B4(1)).v,
             m |-> set_cf_and_of([m EXCEPT !.of = signed_add_overflows(operand, B4(1))],
                                 overflowing_add(operand, B4(1)).v, size)]
      [] mnemonic = "DEC" ->
            [v |-> overflowing_sub(operand, B4(2)).v,
             m |-> set_cf_and_of([m EXCEPT !.of = signed_sub_overflows(operand, B4(2))],
                                 overflowing_sub(operand, B4(2)).v, size)]
      [] mnemonic = "NOT" -> [v |-> NotW(operand), m |-> m]
      [] mnemonic = "NEG" ->
            [v |-> overflowing_neg(operand).v,
             m |-> [m EXCEPT !.cf = overflowing_neg(operand).o]]
      [] OTHER -> [v |-> <<255, 255, 255, 255>>, m |-> Panic(m)]

\* the match on the mnemonic in VM::unary_operation: the result and the machine
\* with CF and OF set
unary_result(m, mnemonic, operand, size) ==
    CASE mnemonic = "INC" ->
            [v |-> overflowing_add(operand, B4(1)).v,
             m |-> set_cf_and_of([m EXCEPT !.of = signed_add_overflows(operand, B4(1))],
                                 overflowing_add(operand, B4(1)).v, size)]
      [] mnemonic = "DEC" ->
            [v |-> overflowing_sub(operand, B4(1)).v,
             m |-> set_cf_and_of([m EXCEPT !.of = signed_sub_overflows(operand, B4(1))],
                                 overflowing_sub(operand, B4(1)).v, size)]
      [] mnemonic = "NOT" -> [v |-> NotW(operand), m |-> m]
      [] mnemonic = "NEG" ->
            [v |-> overflowing_neg(operand).v,
             m |-> [m EXCEPT !.cf = overflowing_neg(operand).o]]
      [] OTHER -> [v |-> <<255, 255, 255, 255>>, m |-> Panic(m)]

\* VM::unary_operation
unary_operation(m) ==
    With([d \in {parse_destination(go_from_here(m, B4(1)))} |->
        IF ~Running(d.m) THEN d.m
        ELSE IF ~InBounds(d.p) THEN Panic(d.m)
        ELSE With([r \in {unary_result(d.m, Tok(m).value, get_value(d.m, d.p),
                                       d.p.size)} |->
                set_value(set_sf_and_zf(r.m, r.v), d.p, r.v)])])

\* the flags VM::cmp leaves for the zero-extended operands first and second and
\* the sign-extended operands a and b; the i32 `-` and `*` panic on overflow in
\* a debug build
compare(m, first, second, a, b) ==
    With([m1 \in {[m EXCEPT !.cf = LtU(first, second), !.zf = (first = second),
                            !.sf = LtS(a, b)]} |->
    With([tmp \in {AddC(a, NotW(b), 1).v} |->
    With([p1 \in {overflowing_mul_i32(a, b)} |->
    With([p2 \in {overflowing_mul_i32(tmp, b)} |->
        IF build = "debug" /\ (signed_sub_overflows(a, b) \/ p1.o \/ p2.o)
        THEN Panic(m1)
        ELSE [m1 EXCEPT !.of = (IsNeg(p1.v) \/ p1.v = Z4)
                                /\ (~IsNeg(p2.v) /\ p2.v # Z4)]])])])])

\* VM::cmp
cmp(m) ==
    With([d \in {parse_destination(go_from_here(m, B4(1)))} |->
        IF ~Running(d.m) THEN d.m
        ELSE IF ~InBounds(d.p) THEN Panic(d.m)
        ELSE With([s \in {parse_source(expect_token_value(d.m, "COMMA", TRUE))} |->
                IF ~Running(s.m) THEN s.m
                ELSE IF ~InBounds(s.p) THEN Panic(s.m)
                ELSE compare(s.m, get_value(d.m, d.p), get_value(s.m, s.p),
                             Extended(s.m, d.p, TRUE), Extended(s.m, s.p, TRUE))])])

\* an enter that saves EBP and leaves it where it was
enter_WithoutFrame(m) ==
    With([m1 \in {MoveEsp(go_from_here(m, B4(1)), "-", 4)} |->
        IF ~Running(m1) THEN m1
        ELSE set_value(m1, StackPlace(AsIndex(m1.reg["ESP"]), 4), m1.reg["EBP"])])

\* VM::enter
enter(m) ==
    With([m1 \in {MoveEsp(go_from_here(m, B4(1)), "-", 4)} |->
    With([m2 \in {IF ~Running(m1) THEN m1
                  ELSE set_value(m1, StackPlace(AsIndex(m1.reg["ESP"]), 4),
                                 m1.reg["EBP"])} |->
        IF ~Running(m2) THEN m2
        ELSE [m2 EXCEPT !.reg["EBP"] = m2.reg["ESP"]]])])

\* VM::leave
leave(m) ==
    With([m1 \in {go_from_here(m, B4(1))} |->
        IF ~Running(m1) THEN m1
        ELSE With([m2 \in {[m1 EXCEPT !.reg["ESP"] = m1.reg["EBP"]]} |->
             With([top \in {StackPlace(AsIndex(m2.reg["ESP"]), 4)} |->
                IF ~InBounds(top) THEN Panic(m2)
                ELSE MoveEsp(set_value(m2, RegisterTable["EBP"], get_value(m2, top)),
                             "+", 4)])])])

-----------------------------------------------------------------------------
(* VM::preprocess                                                          *)

BranchMnemonics ==
    {"CALL", "JMP", "JE", "JNE", "JG", "JGE", "JL", "JLE", "JA", "JAE", "JB", "JBE"}

EntryLabels == {"main", "start", "_main", "_start"}

\* a conversion that drops the sign instead of wrapping
I32Bytes_Magnitude(n) == B4(IF n >= 0 THEN n ELSE -n)

\* `n as u32` for a small i32 n
I32Bytes(n) == IF n >= 0 THEN B4(n) ELSE NotW(B4(-n - 1))

\* a first loop in which the first declared entry label wins
RECURSIVE first_pass_FirstWins(_, _, _, _)
first_pass_FirstWins(src, i, idx, entrance) ==
    IF i > Len(src) THEN [ok |-> TRUE, index |-> idx, entrance |-> entrance, n |-> Len(src)]
    ELSE LET last_token == IF i = 1 THEN DefaultToken ELSE src[i - 1]
             token == src[i]
             count == i - 1
         IN  IF token.value = "COLON"
             THEN IF last_token.type # "LABEL"
                  THEN [ok |-> FALSE, index |-> idx, entrance |-> entrance, n |-> count]
                  ELSE first_pass_FirstWins(src, i + 1,
                                  (last_token.name :> (count - 1)) @@ idx,
                                  IF last_token.name \in EntryLabels
                                     /\ DOMAIN idx \cap EntryLabels = {}
                                  THEN count - 1 ELSE entrance)
             ELSE first_pass_FirstWins(src, i + 1, idx, entrance)

\* the first loop of VM::preprocess from its i-th turn on: the label table, the
\* entry point and the number of tokens pushed; ok is FALSE where it panics
RECURSIVE first_pass(_, _, _, _)
first_pass(src, i, idx, entrance) ==
    IF i > Len(src) THEN [ok |-> TRUE, index |-> idx, entrance |-> entrance, n |-> Len(src)]
    ELSE LET last_token == IF i = 1 THEN DefaultToken ELSE src[i - 1]
             token == src[i]
             count == i - 1
         IN  IF token.value = "COLON"
             THEN IF last_token.type # "LABEL"
                  THEN [ok |-> FALSE, index |-> idx, entrance |-> entrance, n |-> count]
                  ELSE first_pass(src, i + 1,
                                  (last_token.name :> (count - 1)) @@ idx,
                                  IF last_token.name \in EntryLabels
                                  THEN count - 1 ELSE entrance)
             ELSE first_pass(src, i + 1, idx, entrance)

\* the second loop of VM::preprocess from its i-th turn on: the stream with the
\* branch operands rewritten; ok is FALSE where it panics
RECURSIVE second_pass(_, _, _, _)
second_pass(toks, i, flag, idx) ==
    IF i > Len(toks) THEN [ok |-> TRUE, text |-> toks]
    ELSE LET token == toks[i]
             count == i - 1
         IN  IF ~flag
             THEN second_pass(toks, i + 1, token.value \in BranchMnemonics, idx)
             ELSE IF token.type # "LABEL" THEN [ok |-> FALSE, text |-> toks]
             ELSE IF token.name \notin DOMAIN idx THEN [ok |-> FALSE, text |-> toks]
             ELSE With([patched \in {set_int_value(set_token_type(token, "IMMEDIATE_DATA"),
                                                   I32Bytes(idx[token.name] - count - 1))} |->
                     IF ~patched.ok THEN [ok |-> FALSE, text |-> toks]
                     ELSE second_pass([toks EXCEPT ![i] = patched.tok], i + 1, FALSE, idx)])

\* VM::preprocess: the stream, the label table and the entry point
preprocess(src) ==
    With([p1 \in {first_pass(src, 1, <<>>, 0)} |->
        IF ~p1.ok
        THEN [ok |-> FALSE, text |-> SubSeq(src, 1, p1.n), index |-> p1.index, eip |-> Z4]
        ELSE With([p2 \in {second_pass(src, 1, FALSE, p1.index)} |->
                [ok |-> p2.ok, text |-> p2.text, index |-> p1.index,
                 eip |-> IF p2.ok THEN B4(p1.entrance) ELSE Z4]])])

-----------------------------------------------------------------------------
(* VM::run                                                                  *)

\* the machine before a dispatch, with the calls then open
Snapshot == [calls |-> calls] @@ Cur

\* a VM::run whose loop lacks the `if self.depth == 0 { break; }`
Finish_WithoutDepthTest(m, open) ==
    /\ eip' = m.eip
    /\ reg' = m.reg
    /\ cf' = m.cf
    /\ zf' = m.zf
    /\ sf' = m.sf
    /\ of' = m.of
    /\ stack' = m.stack
    /\ memory' = m.memory
    /\ depth' = m.depth
    /\ status' = m.status
    /\ calls' = open
    /\ hist' = IF hist = <<>> THEN <<Snapshot>> ELSE <<Snapshot, hist[1]>>
    /\ UNCHANGED <<source, build, text, index>>

\* the machine a handler leaves, stored; the loop of VM::run ends when depth is 0
Finish(m, open) ==
    \E left \in {m} :
        /\ eip' = left.eip
        /\ reg' = left.reg
        /\ cf' = left.cf
        /\ zf' = left.zf
        /\ sf' = left.sf
        /\ of' = left.of
        /\ stack' = left.stack
        /\ memory' = left.memory
        /\ depth' = left.depth
        /\ status' = IF Running(left) /\ left.depth = 0 THEN "halted" ELSE left.status
        /\ calls' = open
        /\ hist' = IF hist = <<>> THEN <<Snapshot>> ELSE <<Snapshot, hist[1]>>
        /\ UNCHANGED <<source, build, text, index>>

\* the token at EIP is the instruction `values` names
AtInstruction(values) ==
    /\ status = "running"
    /\ InText(Cur)
    /\ Tok(Cur).type = "INSTRUCTION"
    /\ Tok(Cur).value \in values

Preprocess ==
    /\ status = "new"
    /\ \E r \in {preprocess(source)} :
           /\ text' = r.text
           /\ index' = r.index
           /\ eip' = r.eip
           /\ status' = IF r.ok THEN "running" ELSE "panic"
    /\ UNCHANGED <<source, build, reg, cf, zf, sf, of, stack, memory, depth, calls, hist>>

Mov == AtInstruction({"MOV"}) /\ Finish(mov(Cur), calls)

Movsx == AtInstruction({"MOVSX"}) /\ Finish(movsx(Cur), calls)

Movzx == AtInstruction({"MOVZX"}) /\ Finish(movzx(Cur), calls)

BinaryOperation ==
    AtInstruction({"ADD", "SUB", "AND", "OR", "XOR"}) /\ Finish(binary_operation(Cur), calls)

Mul == AtInstruction({"MUL"}) /\ Finish(mul(Cur), calls)

Div == AtInstruction({"DIV", "IDIV"}) /\ Finish(div(Cur), calls)

UnaryOperation ==
    AtInstruction({"INC", "DEC", "NOT", "NEG"}) /\ Finish(unary_operation(Cur), calls)

Bitshift == AtInstruction({"SHL", "SHR", "SAR"}) /\ Finish(bitshift(Cur), calls)

Push == AtInstruction({"PUSH"}) /\ Finish(push(Cur), calls)

Pop == AtInstruction({"POP"}) /\ Finish(pop(Cur), calls)

Cmp == AtInstruction({"CMP"}) /\ Finish(cmp(Cur), calls)

Jump ==
    AtInstruction(BranchMnemonics \ {"CALL"}) /\ Finish(jump(Cur), calls)

Call ==
    /\ AtInstruction({"CALL"})
    /\ Finish(call(Cur), Append(calls, [site |-> eip, esp |-> reg["ESP"], depth |-> depth]))

Ret ==
    /\ AtInstruction({"RET"})
    /\ Finish(ret(Cur), IF depth > 1 /\ calls # <<>>
                        THEN SubSeq(calls, 1, Len(calls) - 1) ELSE calls)

Enter == AtInstruction({"ENTER"}) /\ Finish(enter(Cur), calls)

Leave == AtInstruction({"LEAVE"}) /\ Finish(leave(Cur), calls)

\* TokenValue::INT => break
Interrupt == AtInstruction({"INT"}) /\ Finish([Cur EXCEPT !.status = "halted"], calls)

\* TokenType::LABEL => go_from_here(2)
Label ==
    /\ status = "running"
    /\ InText(Cur)
    /\ Tok(Cur).type = "LABEL"
    /\ Finish(go_from_here(Cur, B4(2)), calls)

\* any other token type at instruction position: error_report
Unexpected ==
    /\ status = "running"
    /\ InText(Cur)
    /\ Tok(Cur).type \notin {"INSTRUCTION", "LABEL"}
    /\ Finish(Panic(Cur), calls)

\* a loop that ends quietly when EIP is no index of the stream
FetchOutOfRange_Halts ==
    /\ status = "running"
    /\ ~InText(Cur)
    /\ Finish([Cur EXCEPT !.status = "halted"], calls)

\* self.text[self.get_eip()] with EIP at or beyond the end of the stream
FetchOutOfRange ==
    /\ status = "running"
    /\ ~InText(Cur)
    /\ Finish(Panic(Cur), calls)

-----------------------------------------------------------------------------
(* Source programs, as the token sequences Scanner::get_next_token delivers *)

\* number of boundary values tried per operand
NV == 8

\* Scanner::handle_identifier_state: a mnemonic, a register, a keyword, a label
I(v) == new_token("INSTRUCTION", v, v)
R(v) == new_token("REGISTER", v, v)
K(v) == new_token("KEYWORD", v, v)
L(n) == new_token("LABEL", "LABEL", n)

\* Scanner::handle_immedidate_data_state: a decimal literal of value b
N(b) == new_int_token("n", b)

\* Scanner::handle_symbol_state
Comma  == new_symbol_token("COMMA", ",", -1)
Colon  == new_symbol_token("COLON", ":", -1)
Minus  == new_symbol_token("MINUS", "-", 10)
Plus   == new_symbol_token("PLUS", "+", 10)
Times  == new_symbol_token("TIMES", "*", 20)
LBrack == new_symbol_token("LBRACK", "[", -1)
RBrack == new_symbol_token("RBRACK", "]", -1)

\* the k-th boundary value of w bytes, as a u32
BV(w, k) ==
    CASE k = 1 -> Z4
      [] k = 2 -> B4(1)
      [] k = 3 -> [j \in 1..4 |-> IF j <= w THEN 255 ELSE 0]
      [] k = 4 -> [j \in 1..4 |-> IF j = w THEN 128 ELSE 0]
      [] k = 5 -> [j \in 1..4 |-> IF j < w THEN 255 ELSE IF j = w THEN 127 ELSE 0]
      [] k = 6 -> [j \in 1..4 |-> IF j = 1 THEN 254 ELSE IF j <= w THEN 255 ELSE 0]
      [] k = 7 -> B4(2)
      [] k = 8 -> [j \in 1..4 |-> IF j = w THEN (IF w = 1 THEN 126 ELSE 127)
                                  ELSE IF j = 1 THEN 254
                                  ELSE IF j < w THEN 255 ELSE 0]
      [] k = 9 -> [j \in 1..4 |-> IF j = w THEN (IF w = 1 THEN 129 ELSE 128)
                                  ELSE IF j = 1 THEN 1 ELSE 0]
      [] OTHER -> B4(k)

\* two words with four different non-zero bytes each
Pattern1 == <<210, 180, 195, 165>>
Pattern2 == <<17, 34, 51, 68>>

RegisterNames == DOMAIN RegisterTable
SizeOf(r) == RegisterTable[r].size
Container(r) == RegisterTable[r].name

MovImm(d, b) == <<I("MOV"), R(d), Comma, N(b)>>
MovReg(d, r) == <<I("MOV"), R(d), Comma, R(r)>>
Halt == <<I("INT"), N(B4(128))>>

\* mov <container>, Pattern1 ; mov d, a ; mov s, b ; op d, s ; jcc L ;
\* mov esi, 1 ; L: int 128
ArithProgram(op, d, r, a, b, jcc) ==
    MovImm(Container(d), Pattern1) \o MovImm(d, a) \o MovImm(r, b)
    \o <<I(op), R(d), Comma, R(r)>>
    \o <<I(jcc), L("L")>> \o MovImm("ESI", B4(1))
    \o <<L("L"), Colon>> \o Halt

ArithPairs == {<<"AL", "BL">>, <<"AH", "BH">>, <<"AX", "BX">>, <<"EAX", "EBX">>}

ArithPrograms ==
    {ArithProgram(op, pr[1], pr[2], BV(SizeOf(pr[1]), ka), BV(SizeOf(pr[1]), kb), jcc) :
        op \in {"ADD", "SUB"}, pr \in ArithPairs, ka \in 1..NV, kb \in 1..NV,
        jcc \in {"JE"}}
    \cup
    {ArithProgram(op, "EAX", "EBX", BV(4, ka), BV(4, kb), jcc) :
        op \in {"ADD", "SUB"}, ka \in 1..NV, kb \in 1..NV,
        jcc \in BranchMnemonics \ {"CALL"}}

\* a register of the size of d in another container
Partner(d) ==
    IF Container(d) = "EAX"
    THEN CASE SizeOf(d) = 4 -> "EBX" [] SizeOf(d) = 2 -> "BX" [] OTHER -> "BH"
    ELSE CASE SizeOf(d) = 4 -> "EAX" [] SizeOf(d) = 2 -> "AX" [] OTHER -> "AH"

\* mov into every register and sub-register, from an immediate and from a register
MovPrograms ==
    {MovImm(Container(d), Pattern1) \o MovImm(d, BV(SizeOf(d), k)) \o Halt :
        d \in RegisterNames, k \in 1..NV}
    \cup
    {MovImm(Container(d), Pattern1) \o MovImm(Container(Partner(d)), Pattern2)
     \o MovImm(Partner(d), BV(SizeOf(d), k)) \o MovReg(d, Partner(d)) \o Halt :
        d \in RegisterNames, k \in 1..NV}

\* push r ; pop s for every two registers of one size
PushPopProgram(r, t, k) ==
    (IF Container(r) = "ESP" THEN <<>>
     ELSE MovImm(Container(r), Pattern1) \o MovImm(r, BV(SizeOf(r), k)))
    \o <<I("PUSH"), R(r), I("POP"), R(t)>> \o Halt

PushPopPrograms ==
    {PushPopProgram(pr[1], pr[2], k) :
        pr \in {q \in RegisterNames \X RegisterNames : SizeOf(q[1]) = SizeOf(q[2])},
        k \in {3, 5}}

ControlPrograms ==
    { \* main: mov eax, 0 ; call f ; int 128 ; f: mov eax, 42 ; ret
      <<L("main"), Colon>> \o MovImm("EAX", Z4) \o <<I("CALL"), L("f")>> \o Halt
        \o <<L("f"), Colon>> \o MovImm("EAX", B4(42)) \o <<I("RET")>>,
      \* f: call f
      <<L("f"), Colon, I("CALL"), L("f")>>,
      \* main: call a ; int 128 ; a: call b ; mov ebx, 2 ; ret ; b: mov eax, 1 ; ret
      <<L("main"), Colon, I("CALL"), L("a")>> \o Halt
        \o <<L("a"), Colon, I("CALL"), L("b")>> \o MovImm("EBX", B4(2)) \o <<I("RET")>>
        \o <<L("b"), Colon>> \o MovImm("EAX", B4(1)) \o <<I("RET")>>,
      \* mov eax, 7 ; ret ; mov eax, 9
      MovImm("EAX", B4(7)) \o <<I("RET")>> \o MovImm("EAX", B4(9)),
      \* call f ; mov eax, 9 ; f: mov eax, 7 ; int 128 ; mov eax, 9
      <<I("CALL"), L("f")>> \o MovImm("EAX", B4(9)) \o <<L("f"), Colon>>
        \o MovImm("EAX", B4(7)) \o Halt \o MovImm("EAX", B4(9)),
      \* mov ecx, 3 ; L: add eax, ecx ; sub ecx, 1 ; jne L ; int 128
      MovImm("ECX", B4(3)) \o <<L("L"), Colon, I("ADD"), R("EAX"), Comma, R("ECX")>>
        \o <<I("SUB"), R("ECX"), Comma, N(B4(1)), I("JNE"), L("L")>> \o Halt,
      \* jmp b ; a: mov eax, 5 ; int 128 ; b: jmp a
      <<I("JMP"), L("b"), L("a"), Colon>> \o MovImm("EAX", B4(5)) \o Halt
        \o <<L("b"), Colon, I("JMP"), L("a")>>,
      \* mov eax, 1   (no halt: execution runs off the end)
      MovImm("EAX", B4(1)),
      \* 5   (a literal at instruction position)
      <<N(B4(5))>>,
      \* jmp 5   (a branch without a label)
      <<I("JMP"), N(B4(5))>>,
      \* jmp nowhere   (an undeclared label)
      <<I("JMP"), L("nowhere")>> \o Halt,
      \* : mov eax, 1   (a colon without a label)
      <<Colon>> \o MovImm("EAX", B4(1)),
      \* mov eax, 1 ; int 128 ; jmp   (a branch mnemonic ends the file)
      MovImm("EAX", B4(1)) \o Halt \o <<I("JMP")>>,
      \* call   (a call mnemonic is the whole file)
      <<I("CALL")>>,
      \* L: mov eax, 1 ; jmp M ; L: mov eax, 2 ; M: int 128 ; jmp L
      <<L("L"), Colon>> \o MovImm("EAX", B4(1)) \o <<I("JMP"), L("M"), L("L"), Colon>>
        \o MovImm("EAX", B4(2)) \o <<L("M"), Colon>> \o Halt \o <<I("JMP"), L("L")>>,
      \* L: jmp L   (a loop without an exit)
      <<L("L"), Colon, I("JMP"), L("L")>>
    }

\* cmp and the bitwise operations on two registers of one width
ComparePrograms ==
    {ArithProgram("CMP", pr[1], pr[2], BV(SizeOf(pr[1]), ka), BV(SizeOf(pr[1]), kb), "JE") :
        pr \in ArithPairs, ka \in 1..NV, kb \in 1..NV}

LogicPrograms ==
    {ArithProgram(op, pr[1], pr[2], BV(SizeOf(pr[1]), ka), BV(SizeOf(pr[1]), kb), "JE") :
        op \in {"AND", "OR", "XOR"}, pr \in ArithPairs, ka \in 1..NV, kb \in {3, 4, 5}}

\* the literals -1, 1, 255, -200, 65535 as the scanner delivers them
Immediates ==
    {<<Minus, N(B4(1))>>, <<N(B4(1))>>, <<N(B4(255))>>, <<Minus, N(B4(200))>>,
     <<N(B4(65535))>>}

\* mov <container>, Pattern1 ; mov d, a ; op d, <literal> ; int 128
ImmediateProgram(op, d, a, literal) ==
    MovImm(Container(d), Pattern1) \o MovImm(d, a) \o <<I(op), R(d), Comma>> \o literal
    \o Halt

ImmediatePrograms ==
    {ImmediateProgram(op, d, BV(SizeOf(d), k), literal) :
        op \in {"ADD", "SUB", "AND", "OR", "XOR", "CMP"}, d \in {"EAX", "AX", "AL"},
        k \in {2, 3, 4, 8}, literal \in Immediates}

\* instructions that move data or control, run with flags set by an add or a sub
FlagPrograms ==
    { \* mov al, 1 ; sub al, 2 ; movsx ebx, al ; movzx ecx, al ; enter ; push eax ;
      \* pop edx ; leave ; call f ; int 128 ; f: mov esi, 1 ; ret
      MovImm("AL", B4(1)) \o <<I("SUB"), R("AL"), Comma, N(B4(2))>>
        \o <<I("MOVSX"), R("EBX"), Comma, R("AL"), I("MOVZX"), R("ECX"), Comma, R("AL")>>
        \o <<I("ENTER"), I("PUSH"), R("EAX"), I("POP"), R("EDX"), I("LEAVE")>>
        \o <<I("CALL"), L("f")>> \o Halt
        \o <<L("f"), Colon>> \o MovImm("ESI", B4(1)) \o <<I("RET")>>,
      \* mov eax, 2147483648 ; add eax, eax ; mov word ptr [6], 65534 ;
      \* movsx ebx, word ptr [6] ; movzx ecx, byte ptr [7] ; enter ; leave ; jmp L ;
      \* L: ret
      MovImm("EAX", <<0, 0, 0, 128>>) \o <<I("ADD"), R("EAX"), Comma, R("EAX")>>
        \o <<I("MOV"), K("WORD"), K("PTR"), LBrack, N(B4(6)), RBrack, Comma, N(B4(65534))>>
        \o <<I("MOVSX"), R("EBX"), Comma, K("WORD"), K("PTR"), LBrack, N(B4(6)), RBrack>>
        \o <<I("MOVZX"), R("ECX"), Comma, K("BYTE"), K("PTR"), LBrack, N(B4(7)), RBrack>>
        \o <<I("ENTER"), I("LEAVE"), I("JMP"), L("L"), L("L"), Colon, I("RET")>>,
      \* movsx ax, bx   (a source as wide as the destination)
      <<I("MOVSX"), R("AX"), Comma, R("BX")>> \o Halt,
      \* mov al, 255 ; inc al ; dec al ; not eax ; neg eax ; neg ebx ; int 128
      MovImm("AL", B4(255)) \o <<I("INC"), R("AL"), I("DEC"), R("AL"), I("NOT"), R("EAX")>>
        \o <<I("NEG"), R("EAX"), I("NEG"), R("EBX")>> \o Halt
    }

\* mov eax, a ; mov edx, 0 ; mov <divisor>, b ; div|idiv <divisor> ; int 128
DivPrograms ==
    {MovImm("EAX", B4(a)) \o MovImm("EDX", Z4) \o MovImm("EBX", B4(b))
     \o <<I(op), R(r)>> \o Halt :
        op \in {"DIV", "IDIV"}, r \in {"BL", "BX", "EBX"}, a \in {7, 100}, b \in {2, 0}}

\* the operators of an address expression
AddressOperators == {Plus, Minus, Times}

\* mov byte ptr [<expression>], 9 ; int 128
AddressProgram(expression) ==
    <<I("MOV"), K("BYTE"), K("PTR"), LBrack>> \o expression
    \o <<RBrack, Comma, N(B4(9))>> \o Halt

AddressPrograms ==
    {AddressProgram(<<N(B4(t[1])), o1, N(B4(t[2])), o2, N(B4(t[3]))>>) :
        t \in {<<7, 2, 3>>, <<20, 3, 4>>, <<0, 1, 2>>},
        o1 \in AddressOperators, o2 \in AddressOperators}
    \cup
    {AddressProgram(<<N(B4(t[1])), o1, N(B4(t[2]))>>) :
        t \in {<<7, 2>>, <<20, 3>>, <<0, 1>>}, o1 \in AddressOperators}
    \cup
    {MovImm("EBX", B4(5)) \o AddressProgram(<<R("EBX"), o1, N(B4(2)), o2, R("BL")>>) :
        o1 \in AddressOperators, o2 \in AddressOperators}
    \cup
    {AddressProgram(<<N(B4(1)), Plus, N(B4(2)), Times, N(B4(3)), Plus, N(B4(4))>>),
     AddressProgram(<<N(B4(6))>>),
     AddressProgram(<<Minus, N(B4(6)), Plus, N(B4(8))>>)}

\* the literals tried as the source of a mov: the Immediates and the values
\* around the bounds of the three sizes
MovLiterals ==
    Immediates
    \cup {<<N(Z4)>>, <<N(B4(128))>>, <<N(B4(256))>>, <<N(B4(65536))>>,
          <<N(<<255, 255, 255, 255>>)>>, <<Minus, N(B4(128))>>, <<Minus, N(B4(129))>>,
          <<Minus, N(B4(32768))>>, <<Minus, N(B4(32769))>>,
          <<Minus, N(<<0, 0, 0, 128>>)>>}

\* mov d, <keyword> ptr [8]
MovLoad(d, keyword) == <<I("MOV"), R(d), Comma, K(keyword), K("PTR"), LBrack, N(B4(8)), RBrack>>

\* mov of a literal, of a register and of a memory operand of every size into
\* registers of every size
MovSizePrograms ==
    {MovImm(Container(d), Pattern1) \o <<I("MOV"), R(d), Comma>> \o literal \o Halt :
        d \in {"EAX", "AX", "AL", "AH", "SI"}, literal \in MovLiterals}
    \cup
    {MovImm(Container(d), Pattern1) \o MovImm(Container(s), Pattern2) \o MovReg(d, s)
     \o Halt :
        d \in {"EAX", "AX", "AL", "AH"}, s \in {"EBX", "BX", "BL", "BH"}}
    \cup
    {MovImm("EAX", Pattern1)
     \o <<I("MOV"), K("DWORD"), K("PTR"), LBrack, N(B4(8)), RBrack, Comma, R("EAX")>>
     \o MovImm("EAX", Pattern2) \o MovLoad(d, keyword) \o Halt :
        d \in {"EAX", "AX", "AL", "AH"}, keyword \in {"BYTE", "WORD", "DWORD"}}

\* mov <container of d>, Pattern1 ; mov <container of s>, Pattern2 ; mov s, b ;
\* movsx|movzx d, s ; int 128, and the same from memory at 8
ExtendPrograms ==
    {MovImm(Container(d), Pattern1) \o MovImm(Container(s), Pattern2)
     \o MovImm(s, BV(SizeOf(s), k)) \o <<I(op), R(d), Comma, R(s)>> \o Halt :
        op \in {"MOVSX", "MOVZX"}, d \in {"EAX", "AX", "CX", "AL", "AH"},
        s \in {"AL", "AH", "BL", "BX", "EBX"}, k \in {2, 3, 4, 5}}
    \cup
    {MovImm("EAX", Pattern1)
     \o <<I("MOV"), K("DWORD"), K("PTR"), LBrack, N(B4(8)), RBrack, Comma, R("EAX")>>
     \o MovImm(Container(d), Pattern2)
     \o <<I(op), R(d), Comma, K(keyword), K("PTR"), LBrack, N(B4(8)), RBrack>> \o Halt :
        op \in {"MOVSX", "MOVZX"}, d \in {"EBX", "BX", "BH"},
        keyword \in {"BYTE", "WORD", "DWORD"}}

\* the part of EAX a mul by an operand of s bytes reads
Accumulator(s) == CASE s = 1 -> "AL" [] s = 2 -> "AX" [] OTHER -> "EAX"

\* mov eax, Pattern1 ; mov edx, Pattern2 ; mov <accumulator>, a ; mov r, b ;
\* mul r ; int 128
MulProgram(r, a, b) ==
    MovImm("EAX", Pattern1) \o MovImm("EDX", Pattern2)
    \o MovImm(Accumulator(SizeOf(r)), a) \o MovImm(r, b) \o <<I("MUL"), R(r)>> \o Halt

\* the same with the multiplier in memory at 8
MulFromMemory(keyword, s, a, b) ==
    MovImm("EBX", b)
    \o <<I("MOV"), K("DWORD"), K("PTR"), LBrack, N(B4(8)), RBrack, Comma, R("EBX")>>
    \o MovImm("EAX", Pattern1) \o MovImm("EDX", Pattern2)
    \o MovImm(Accumulator(s), a)
    \o <<I("MUL"), K(keyword), K("PTR"), LBrack, N(B4(8)), RBrack>> \o Halt

MulPrograms ==
    {MulProgram(r, BV(SizeOf(r), ka), BV(SizeOf(r), kb)) :
        r \in {"BL", "AH", "BX", "DX", "EBX", "EDX"}, ka \in {1, 2, 3, 4, 7},
        kb \in {1, 2, 3, 4, 7}}
    \cup
    {MulFromMemory(q[1], q[2], BV(q[2], ka), BV(q[2], 3)) :
        q \in {<<"BYTE", 1>>, <<"WORD", 2>>, <<"DWORD", 4>>}, ka \in {2, 3}}

\* instructions that leave the flags in three different states:
\* nothing; mov esi, 4294967295 ; add esi, 1 (CF and ZF set);
\* mov esi, 2147483647 ; add esi, 1 (SF and OF set)
FlagPreludes ==
    {<<>>,
     MovImm("ESI", <<255, 255, 255, 255>>) \o <<I("ADD"), R("ESI"), Comma, N(B4(1))>>,
     MovImm("ESI", <<255, 255, 255, 127>>) \o <<I("ADD"), R("ESI"), Comma, N(B4(1))>>}

\* <prelude> ; mov <container>, Pattern1 ; mov d, a ; inc|dec|not|neg d ; int 128
UnaryProgram(prelude, op, d, a) ==
    prelude \o MovImm(Container(d), Pattern1) \o MovImm(d, a) \o <<I(op), R(d)>> \o Halt

UnaryPrograms ==
    {UnaryProgram(prelude, op, d, BV(SizeOf(d), k)) :
        prelude \in FlagPreludes, op \in {"INC", "DEC", "NOT", "NEG"},
        d \in {"EAX", "AX", "AL", "AH"}, k \in 1..5}

\* the shift counts tried
ShiftCounts == {0, 1, 2, 7, 8, 9, 15, 16, 31, 32, 33}

\* mov <container>, Pattern1 ; mov d, a ; shl|shr|sar d, n ; int 128
ShiftProgram(op, d, a, n) ==
    MovImm(Container(d), Pattern1) \o MovImm(d, a) \o <<I(op), R(d), Comma, N(B4(n))>>
    \o Halt

ShiftPrograms ==
    {ShiftProgram(op, d, BV(SizeOf(d), k), n) :
        op \in {"SHL", "SHR", "SAR"}, d \in {"EAX", "AX", "AL", "AH"},
        k \in {2, 3, 4, 5, 9}, n \in ShiftCounts}

\* the conditional jumps that decide an order
OrderJumps == {"JL", "JGE", "JG", "JLE", "JB", "JAE", "JA", "JBE"}

\* cmp on two registers of one width holding 0, 1, all-ones, the sign bit alone
\* and the largest positive value, each followed by every jump on an order
CompareJumpPrograms ==
    {ArithProgram("CMP", pr[1], pr[2], BV(SizeOf(pr[1]), ka), BV(SizeOf(pr[1]), kb), jcc) :
        pr \in {<<"AL", "BL">>, <<"AX", "BX">>, <<"EAX", "EBX">>}, ka \in 1..5,
        kb \in 1..5, jcc \in OrderJumps}

\* the constants pushed: the values at the bounds of the three sizes, some
\* between them, -0, and two below -2^31
PushedConstants ==
    {<<N(Z4)>>, <<N(B4(5))>>, <<N(B4(128))>>, <<N(B4(255))>>, <<N(B4(256))>>,
     <<N(B4(65535))>>, <<N(B4(65536))>>, <<N(B4(70000))>>, <<N(<<255, 255, 255, 255>>)>>,
     <<Minus, N(Z4)>>, <<Minus, N(B4(1))>>, <<Minus, N(B4(128))>>, <<Minus, N(B4(129))>>,
     <<Minus, N(B4(200))>>, <<Minus, N(B4(32768))>>, <<Minus, N(B4(32769))>>,
     <<Minus, N(B4(40000))>>, <<Minus, N(<<0, 0, 0, 128>>)>>,
     <<Minus, N(<<1, 0, 0, 128>>)>>, <<Minus, N(<<255, 255, 255, 255>>)>>}

\* push c ; pop r ; int 128, on the empty stack and above an item already pushed
PushConstPrograms ==
    {prefix \o <<I("PUSH")>> \o c \o <<I("POP"), R(r)>> \o Halt :
        prefix \in {<<>>, <<I("PUSH"), N(B4(70000))>>}, c \in PushedConstants,
        r \in {"EAX", "EDI"}}

\* k copies of `push eax`
RECURSIVE Pushes(_)
Pushes(k) == IF k = 0 THEN <<>> ELSE <<I("PUSH"), R("EAX")>> \o Pushes(k - 1)

\* the numbers of pushes tried before an `enter` and inside its frame
FramePushes == 0..2

\* the values EBP holds before the `enter`: the initial one and 1000
FrameBases == {B4(MAX - 1), B4(1000)}

\* mov eax, Pattern1 ; mov ebp, v ; j pushes ; enter ; k pushes ; leave ; int 128
EnterLeaveProgram(j, k, v) ==
    MovImm("EAX", Pattern1) \o MovImm("EBP", v) \o Pushes(j) \o <<I("ENTER")>>
    \o Pushes(k) \o <<I("LEAVE")>> \o Halt

EnterLeavePrograms ==
    {EnterLeaveProgram(j, k, v) : j \in FramePushes, k \in FramePushes, v \in FrameBases}

\* the sized memory operand `<keyword> ptr [a]`
MemoryOperand(keyword, a) == <<K(keyword), K("PTR"), LBrack, N(a), RBrack>>

\* the register as wide as a memory operand of that keyword
RegisterOf(keyword) ==
    CASE keyword = "BYTE" -> "AL" [] keyword = "WORD" -> "AX" [] OTHER -> "EAX"

\* the addresses tried around the end of the memory array, and 2^32 - 1
EdgeAddresses ==
    {B4(MAX - 4), B4(MAX - 3), B4(MAX - 2), B4(MAX - 1), B4(MAX), <<255, 255, 255, 255>>}

\* every instruction form that takes a memory operand, on the operand mem
MemoryForms(keyword, mem) ==
    {<<I("MOV")>> \o mem \o <<Comma, R(RegisterOf(keyword))>>,
     <<I("MOV"), R(RegisterOf(keyword)), Comma>> \o mem,
     <<I("MOV")>> \o mem \o <<Comma, N(B4(1))>>,
     <<I("MOVZX"), R("EBX"), Comma>> \o mem,
     <<I("MOVSX"), R("EBX"), Comma>> \o mem,
     <<I("ADD")>> \o mem \o <<Comma, R(RegisterOf(keyword))>>,
     <<I("XOR"), R(RegisterOf(keyword)), Comma>> \o mem,
     <<I("CMP")>> \o mem \o <<Comma, R(RegisterOf(keyword))>>,
     <<I("CMP"), R(RegisterOf(keyword)), Comma>> \o mem,
     <<I("MUL")>> \o mem,
     <<I("DIV")>> \o mem,
     <<I("INC")>> \o mem,
     <<I("NEG")>> \o mem,
     <<I("SHL")>> \o mem \o <<Comma, N(B4(1))>>,
     <<I("SAR")>> \o mem \o <<Comma, N(B4(1))>>,
     <<I("PUSH")>> \o mem,
     <<I("POP")>> \o mem}

\* mov eax, Pattern1 ; mov ebx, Pattern2 ; push eax ; <form> ; int 128
EdgePrograms ==
    {MovImm("EAX", Pattern1) \o MovImm("EBX", Pattern2) \o <<I("PUSH"), R("EAX")>>
     \o form \o Halt :
        form \in UNION {MemoryForms(keyword, MemoryOperand(keyword, a)) :
                            keyword \in {"BYTE", "WORD", "DWORD"}, a \in EdgeAddresses}}

\* <a>: mov eax, 1 ; int 128 ; <b>: mov eax, 2 ; int 128
TwoRoutines(a, b) ==
    <<L(a), Colon>> \o MovImm("EAX", B4(1)) \o Halt
    \o <<L(b), Colon>> \o MovImm("EAX", B4(2)) \o Halt

\* programs that declare none, one or two of the entry labels, in both orders,
\* one of them twice, and one after code that runs into it
EntryPrograms ==
    {TwoRoutines(a, b) : a \in EntryLabels \cup {"f"}, b \in EntryLabels \cup {"g"}}
    \cup
    {MovImm("EAX", B4(3)) \o Halt \o TwoRoutines(a, "g") : a \in EntryLabels}
    \cup
    { \* mov eax, 1 ; jmp start ; int 128 ; start: mov eax, 2 ; int 128
      MovImm("EAX", B4(1)) \o <<I("JMP"), L("start")>> \o Halt
        \o <<L("start"), Colon>> \o MovImm("EAX", B4(2)) \o Halt,
      \* g: mov eax, 1 ; int 128   (no entry label)
      <<L("g"), Colon>> \o MovImm("EAX", B4(1)) \o Halt }

\* programs with an identifier that is no declaration at instruction position
StrayPrograms ==
    { \* foo ret mov eax, 7 ; int 128
      <<L("foo"), I("RET")>> \o MovImm("EAX", B4(7)) \o Halt,
      \* foo mov eax, 1 ; int 128
      <<L("foo")>> \o MovImm("EAX", B4(1)) \o Halt,
      \* mov eax, 1 ; foo int 128
      MovImm("EAX", B4(1)) \o <<L("foo")>> \o Halt,
      \* mov eax, 1 ; foo   (the identifier ends the file)
      MovImm("EAX", B4(1)) \o <<L("foo")>>,
      \* main: mov eax, 1 ; eax ; int 128   (a register at instruction position)
      <<L("main"), Colon>> \o MovImm("EAX", B4(1)) \o <<R("EAX")>> \o Halt,
      \* mov eax, 1 ; , int 128   (a comma at instruction position)
      MovImm("EAX", B4(1)) \o <<Comma>> \o Halt,
      \* mov eax, 1 ; byte int 128   (a keyword at instruction position)
      MovImm("EAX", B4(1)) \o <<K("BYTE")>> \o Halt }

\* the instructions cut short
WholeInstructions ==
    {MovImm("EAX", B4(1)),
     <<I("ADD"), R("EAX"), Comma, R("EBX")>>,
     <<I("CMP"), R("EAX"), Comma, N(B4(1))>>,
     <<I("MOV")>> \o MemoryOperand("DWORD", B4(8)) \o <<Comma, R("EAX")>>,
     <<I("MOVZX"), R("EAX"), Comma, R("BL")>>,
     <<I("SHL"), R("EAX"), Comma, N(B4(1))>>,
     <<I("PUSH"), R("EAX")>>, <<I("POP"), R("EAX")>>, <<I("MUL"), R("EBX")>>,
     <<I("DIV"), R("EBX")>>, <<I("INC"), R("EAX")>>}

\* mov ebx, 2 ; push ebx ; <the first n tokens of an instruction>, and the
\* whole instruction with nothing after it
TruncatedPrograms ==
    UNION {{MovImm("EBX", B4(2)) \o <<I("PUSH"), R("EBX")>> \o SubSeq(w, 1, n) :
               n \in 1..Len(w)} : w \in WholeInstructions}

\* call f ; int 128 ; f: mov eax, a ; push eax ; ret   (a return address a
\* that is no index of the stream)
BadReturnPrograms ==
    {<<I("CALL"), L("f")>> \o Halt \o <<L("f"), Colon>> \o MovImm("EAX", a)
     \o <<I("PUSH"), R("EAX"), I("RET")>> :
        a \in {B4(13), B4(1000), <<0, 0, 0, 128>>, <<255, 255, 255, 255>>}}

\* the stack pointers tried around both ends of the stack array
EdgePointers ==
    {Z4, B4(2), B4(3), B4(4), B4(MAX - 4), B4(MAX - 3), B4(MAX - 1), B4(MAX),
     <<0, 0, 0, 128>>, <<255, 255, 255, 255>>}

\* mov eax, Pattern1 ; mov esp, v ; mov ebp, v ; <a stack instruction> ; int 128,
\* and call f ; int 128 ; f: mov esp, v ; ret
StackEdgePrograms ==
    {MovImm("EAX", Pattern1) \o MovImm("ESP", v) \o MovImm("EBP", v) \o op \o Halt :
        v \in EdgePointers,
        op \in {<<I("PUSH"), R("EAX")>>, <<I("PUSH"), R("AX")>>, <<I("PUSH"), R("AL")>>,
                <<I("POP"), R("EBX")>>, <<I("POP"), R("BX")>>, <<I("POP"), R("BL")>>,
                <<I("ENTER")>>, <<I("LEAVE")>>}}
    \cup
    {MovImm("ESP", v) \o <<I("CALL"), L("f")>> \o Halt
     \o <<L("f"), Colon>> \o MovImm("EAX", B4(1)) \o <<I("RET")>> :
        v \in EdgePointers}
    \cup
    {<<I("CALL"), L("f")>> \o Halt \o <<L("f"), Colon>> \o MovImm("ESP", v)
     \o <<I("RET")>> :
        v \in EdgePointers}

\* the longest countdown tried
MaxCount == 5

\* mov eax, 1 ; mov ecx, n ; L: add eax, eax ; dec ecx ; jne L ; int 128
CountdownProgram(n) ==
    MovImm("EAX", B4(1)) \o MovImm("ECX", B4(n))
    \o <<L("L"), Colon, I("ADD"), R("EAX"), Comma, R("EAX"), I("DEC"), R("ECX")>>
    \o <<I("JNE"), L("L")>> \o Halt

CountdownPrograms == {CountdownProgram(n) : n \in 1..MaxCount}

\* mov eax, 0 ; mov al, 0xFF ; mov ah, 0x12 ; int 0x80, one instruction a line
HexFile ==
    <<"m", "o", "v", " ", "e", "a", "x", ",", " ", "0", "\n", "m", "o", "v", " ", "a",
      "l", ",", " ", "0", "x", "F", "F", "\n", "m", "o", "v", " ", "a", "h", ",", " ",
      "0", "x", "1", "2", "\n", "i", "n", "t", " ", "0", "x", "8", "0", "\n">>

\* mov al, 0xFF ; int 0x80
ByteFile ==
    <<"m", "o", "v", " ", "a", "l", ",", " ", "0", "x", "F", "F", "\n", "i", "n", "t",
      " ", "0", "x", "8", "0", "\n">>

\* mov eax, 5 ; add eax, 7 ; int 0x80, with a comment
SumFile ==
    <<"m", "o", "v", " ", "e", "a", "x", ",", " ", "5", " ", ";", " ", "f", "i", "v",
      "e", "\n", "a", "d", "d", " ", "e", "a", "x", ",", " ", "7", "\n", "i", "n", "t",
      " ", "0", "x", "8", "0", "\n">>

\* a directive, an entry label, mixed case and a return
EntryFile ==
    <<".", "t", "e", "x", "t", "\n", "m", "a", "i", "n", ":", "\n", " ", " ", "M", "o",
      "v", " ", "E", "C", "X", ",", " ", "0", "X", "1", "f", "\n", " ", " ", "r", "e",
      "t">>

\* mov eax, 1 ; mov ecx, 5 ; L: add eax, eax ; dec ecx ; jne L ; ret, one
\* instruction a line
CountdownFile ==
    <<"m", "o", "v", " ", "e", "a", "x", ",", " ", "1", "\n", "m", "o", "v", " ", "e",
      "c", "x", ",", " ", "5", "\n", "L", ":", "\n", "a", "d", "d", " ", "e", "a", "x",
      ",", " ", "e", "a", "x", "\n", "d", "e", "c", " ", "e", "c", "x", "\n", "j", "n",
      "e", " ", "L", "\n", "r", "e", "t", "\n">>

\* the integer literals scanned, each as the source operand of a `mov eax`
Literals ==
    {<<"0", "x", "F", "F">>,
     <<"0", "X", "1", "f">>,
     <<"0", "x", "1", "2">>,
     <<"0", "x", "8", "0">>,
     <<"0", "x", "0">>,
     <<"0", "1", "7">>,
     <<"0", "7">>,
     <<"0">>,
     <<"7">>,
     <<"4", "2">>,
     <<"2", "5", "5">>,
     <<"6", "5", "5", "3", "6">>,
     <<"4", "2", "9", "4", "9", "6", "7", "2", "9", "5">>}

\* mov eax, <literal>
LiteralFile(literal) ==
    <<"m", "o", "v", " ", "e", "a", "x", ",", " ">> \o literal \o <<"\n">>

\* the token stream of each literal's file
ScannedLiterals == [t \in Literals |-> TokenStream(LiteralFile(t))]

\* the token stream of HexFile
ScannedHexFile == TokenStream(HexFile)

\* the streams the scanner makes of the files above
ScannedPrograms ==
    {ScannedLiterals[t].tokens : t \in Literals}
    \cup {TokenStream(f).tokens : f \in {HexFile, ByteFile, SumFile, EntryFile, CountdownFile}}

Programs ==
    ArithPrograms \cup MovPrograms \cup PushPopPrograms \cup ControlPrograms
    \cup ComparePrograms \cup LogicPrograms \cup ImmediatePrograms \cup FlagPrograms
    \cup DivPrograms \cup AddressPrograms \cup CountdownPrograms \cup ScannedPrograms
    \cup MovSizePrograms \cup ExtendPrograms \cup MulPrograms \cup UnaryPrograms
    \cup ShiftPrograms \cup CompareJumpPrograms \cup PushConstPrograms
    \cup EnterLeavePrograms \cup EdgePrograms \cup EntryPrograms \cup StrayPrograms
    \cup TruncatedPrograms \cup BadReturnPrograms \cup StackEdgePrograms

-----------------------------------------------------------------------------
(* The specification                                                        *)

\* VM::new
Init ==
    /\ source \in Programs
    /\ build \in {"debug", "release"}
    /\ text = <<>>
    /\ index = <<>>
    /\ reg = [r \in RegNames |-> IF r \in {"ESP", "EBP"} THEN B4(MAX - 1) ELSE Z4]
    /\ eip = Z4
    /\ cf = FALSE
    /\ zf = FALSE
    /\ sf = FALSE
    /\ of = FALSE
    /\ stack = <<>>
    /\ memory = <<>>
    /\ depth = 1
    /\ status = "new"
    /\ calls = <<>>
    /\ hist = <<>>

\* VM::run: preprocess, then the dispatch loop
Next ==
    \/ Preprocess
    \/ Mov
    \/ Movsx
    \/ Movzx
    \/ BinaryOperation
    \/ Mul
    \/ Div
    \/ UnaryOperation
    \/ Bitshift
    \/ Push
    \/ Pop
    \/ Cmp
    \/ Jump
    \/ Call
    \/ Ret
    \/ Enter
    \/ Leave
    \/ Interrupt
    \/ Label
    \/ Unexpected
    \/ FetchOutOfRange

Spec == Init /\ [][Next]_vars

\* the programs whose whole runs are followed to their end, or for ever
LivePrograms ==
    ControlPrograms \cup CountdownPrograms \cup DivPrograms \cup ScannedPrograms
    \cup {p \in FlagPrograms : \A k \in 1..Len(p) : p[k].type # "KEYWORD"}
    \cup {PushPopProgram("EAX", "EBX", 3), MulProgram("BX", B4(65535), B4(2)),
          ShiftProgram("SAR", "AX", B4(32769), 1),
          ArithProgram("CMP", "EAX", "EBX", BV(4, 2), BV(4, 3), "JE")}

LiveInit == Init /\ source \in LivePrograms

\* the loop of VM::run never pauses: while an instruction can be dispatched,
\* one is
LiveSpec == LiveInit /\ [][Next]_vars /\ WF_vars(Next)

-----------------------------------------------------------------------------
(* What the properties below speak about                                    *)

\* the instruction dispatched last was one of `values`
Dispatched(values) ==
    /\ hist # <<>>
    /\ InText(hist[1])
    /\ Tok(hist[1]).type = "INSTRUCTION"
    /\ Tok(hist[1]).value \in values

\* the instruction dispatched before the last one was one of `values`
DispatchedBefore(values) ==
    /\ Len(hist) = 2
    /\ InText(hist[2])
    /\ Tok(hist[2]).type = "INSTRUCTION"
    /\ Tok(hist[2]).value \in values

\* the stream index of the instruction dispatched last, and of the one before it
Site == Val24(hist[1].eip)
SiteBefore == Val24(hist[2].eip)

\* the k-th token after the instruction dispatched last exists and is a `type`
OperandIs(k, type) == Site + k + 1 <= Len(text) /\ text[Site + k + 1].type = type

\* a small i32 held in four bytes, as an integer
AsInt(b) == IF IsNeg(b) THEN -(Val24(NotW(b)) + 1) ELSE Val24(b)

\* the frame of the innermost call open before the last dispatch
Frame == hist[1].calls[Len(hist[1].calls)]

-----------------------------------------------------------------------------
(* Call and return                                                          *)

\* C1: every `call L` executed at call-depth d with ESP = s pushes the index of
\* the token after its operand as a 4-byte return address, makes call-depth d+1
\* and EIP the index of L; the matching `ret`, executed with ESP back at s-4,
\* continues at the instruction following the call with ESP = s and call-depth d.
C1_CallAndRet ==
    /\ (Dispatched({"CALL"}) /\ Site + 2 <= Len(source)
            /\ source[Site + 2].type = "LABEL")
        => /\ depth = hist[1].depth + 1
           /\ eip = B4(index[source[Site + 2].name])
           /\ AsIndex(reg["ESP"]) = AsIndex(hist[1].reg["ESP"]) - 4
           /\ get_value(Cur, StackPlace(AsIndex(reg["ESP"]), 4)) = B4(Site + 2)
    /\ (Dispatched({"RET"}) /\ hist[1].calls # <<>>
            /\ AsIndex(hist[1].reg["ESP"]) = AsIndex(Frame.esp) - 4)
        => /\ eip = B4(Val24(Frame.site) + 2)
           /\ reg["ESP"] = Frame.esp
           /\ depth = Frame.depth

\* C1 below the width of the depth counter: the same for every call executed at
\* a call-depth under 255 with room on the stack for the return address
C1_CallAndRet_Below255 ==
    (hist # <<>> /\ hist[1].depth < 255 /\ AsIndex(hist[1].reg["ESP"]) \in 4..MAX)
    => C1_CallAndRet

-----------------------------------------------------------------------------
(* Halting                                                                  *)

\* EAX, EBX, ECX, EDX are what they were before the last dispatch
SameABCD == \A r \in {"EAX", "EBX", "ECX", "EDX"} : reg[r] = hist[1].reg[r]

-----------------------------------------------------------------------------
(* Preprocessing                                                            *)

\* the runs whose preprocessing returned
Preprocessed == status \in {"running", "halted"} \/ hist # <<>>

\* the 1-based positions of the mnemonics in `toks` that take a label
BranchSites(toks) ==
    {i \in 1..Len(toks) : /\ toks[i].type = "INSTRUCTION"
                          /\ toks[i].value \in BranchMnemonics
                          /\ (i = 1 \/ toks[i - 1].type # "INSTRUCTION"
                                    \/ toks[i - 1].value \notin BranchMnemonics)}

\* the stream indexes at which label X is declared
Declarations(X) ==
    {j \in 0..(Len(source) - 2) : /\ source[j + 1].type = "LABEL"
                                  /\ source[j + 1].name = X
                                  /\ source[j + 2].value = "COLON"}

\* C3: after preprocessing, the operand at stream index i of every call, jmp and
\* conditional jump naming label X holds index(X) - i - 1 as a signed 32-bit
\* value, index(X) being the stream index of X's declaration; the branch, when
\* taken, sets EIP to index(X), forward and backward.
C3_Displacement ==
    /\ Preprocessed
        => \A i \in BranchSites(source) :
              (i < Len(source) /\ source[i + 1].type = "LABEL")
              => /\ text[i + 1].type = "IMMEDIATE_DATA"
                 /\ index[source[i + 1].name] \in Declarations(source[i + 1].name)
                 /\ AsInt(text[i + 1].int) = index[source[i + 1].name] - i - 1
    /\ (Dispatched(BranchMnemonics) /\ status # "panic"
            /\ jump_taken(Tok(hist[1]).value, hist[1]))
        => eip = B4(index[source[Site + 2].name])
    /\ (Dispatched({"CALL"}) /\ status # "panic")
        => eip = B4(index[source[Site + 2].name])

\* a conditional jump to a label declared before it was taken: the operand holds
\* a negative displacement and EIP is the label's index, below the jump's
C3_Witness ==
    /\ Dispatched({"JNE"})
    /\ status = "running"
    /\ IsNeg(text[Site + 2].int)
    /\ AsInt(text[Site + 2].int) = index["L"] - (Site + 1) - 1
    /\ eip = B4(index["L"])
    /\ Val24(eip) < Site

\* C4: preprocessing aborts, before any instruction executes, whenever a call,
\* jmp or conditional-jump mnemonic is not directly followed by a label declared
\* somewhere in the source; hence in every stream that reaches execution each
\* such mnemonic is directly followed by an IMMEDIATE_DATA displacement token.
C4_BranchNeedsLabel ==
    /\ (status # "new"
            /\ \E i \in BranchSites(source) :
                  ~(/\ i < Len(source)
                    /\ source[i + 1].type = "LABEL"
                    /\ Declarations(source[i + 1].name) # {}))
        => (status = "panic" /\ hist = <<>>)
    /\ Preprocessed
        => \A i \in BranchSites(text) :
              i < Len(text) /\ text[i + 1].type = "IMMEDIATE_DATA"

\* C4 for the mnemonics that have a token after them: preprocessing aborts when
\* that token is no declared label
C4_FollowedByNoLabel ==
    (status # "new"
        /\ \E i \in BranchSites(source) :
              /\ i < Len(source)
              /\ ~(source[i + 1].type = "LABEL"
                    /\ Declarations(source[i + 1].name) # {}))
    => (status = "panic" /\ hist = <<>>)

-----------------------------------------------------------------------------
(* Registers and the stack                                                  *)

\* the bytes (1 = least significant) of its dword that a register name names
NamedBytes(r) ==
    CASE r \in {"AL", "BL", "CL", "DL"} -> {1}
      [] r \in {"AH", "BH", "CH", "DH"} -> {2}
      [] r \in {"AX", "BX", "CX", "DX", "SI", "DI", "SP", "BP"} -> {1, 2}
      [] OTHER -> {1, 2, 3, 4}

\* the dword a register name lies in
Dword(r) ==
    CASE r \in {"EAX", "AX", "AH", "AL"} -> "EAX"
      [] r \in {"EBX", "BX", "BH", "BL"} -> "EBX"
      [] r \in {"ECX", "CX", "CH", "CL"} -> "ECX"
      [] r \in {"EDX", "DX", "DH", "DL"} -> "EDX"
      [] r \in {"ESI", "SI"} -> "ESI"
      [] r \in {"EDI", "DI"} -> "EDI"
      [] r \in {"ESP", "SP"} -> "ESP"
      [] r \in {"EBP", "BP"} -> "EBP"

\* the value register r holds in the register file regs, low byte first
Held(regs, r) ==
    LET bytes == NamedBytes(r)
        low   == CHOOSE k \in bytes : \A j \in bytes : k <= j
    IN  [k \in 1..4 |-> IF k <= Cardinality(bytes) THEN regs[Dword(r)][low + k - 1] ELSE 0]

\* the last two dispatches were `push R` and, directly after it, `pop S`, both
\* on registers of one width
PushThenPop ==
    /\ Dispatched({"POP"})
    /\ DispatchedBefore({"PUSH"})
    /\ Site = SiteBefore + 2
    /\ text[SiteBefore + 2].type = "REGISTER"
    /\ OperandIs(1, "REGISTER")
    /\ Cardinality(NamedBytes(text[SiteBefore + 2].value))
         = Cardinality(NamedBytes(text[Site + 2].value))

\* after `push R ; pop S`, S holds what R held and ESP is what it was
RoundTrip ==
    /\ status = "running"
    /\ Held(reg, text[Site + 2].value) = Held(hist[2].reg, text[SiteBefore + 2].value)
    /\ reg["ESP"] = hist[2].reg["ESP"]

\* C5 as stated: for every general register R of width w holding v and every
\* register S of width w, `push R ; pop S` leaves S = v and ESP as before the push.
C5_PushPop_AnyRegister == PushThenPop => RoundTrip

\* C5, amended: the same for every R and S of one width that are not ESP or SP
\* (`push esp` stores ESP as already lowered, `pop esp` is raised after the load).
C5_PushPop ==
    (PushThenPop /\ Dword(text[SiteBefore + 2].value) # "ESP"
                 /\ Dword(text[Site + 2].value) # "ESP")
    => RoundTrip

\* `push ah ; pop bl` with AH = 0x7F has left BL = 0x7F and ESP where it was
C5_Witness ==
    /\ PushThenPop
    /\ text[SiteBefore + 2].value = "AH"
    /\ text[Site + 2].value = "BL"
    /\ hist[2].reg["EAX"][2] = 127
    /\ reg["EBX"][1] = 127
    /\ reg["ESP"] = B4(MAX - 1)

\* C6: a `mov` into a sub-register changes only the bytes it names (AL..DL byte
\* 0, AH..DH byte 1, the 16-bit aliases bytes 0-1, a dword all four) and changes
\* no other register.
C6_MovSubRegister ==
    (Dispatched({"MOV"}) /\ OperandIs(1, "REGISTER") /\ status = "running")
    => \A r \in RegNames : \A k \in 1..4 :
          \/ r = Dword(text[Site + 2].value) /\ k \in NamedBytes(text[Site + 2].value)
          \/ reg[r][k] = hist[1].reg[r][k]

\* `mov ah, 255` on EAX = A5C3B4D2 has left EAX = A5C3FFD2
C6_Witness ==
    /\ Dispatched({"MOV"})
    /\ status = "running"
    /\ text[Site + 2].value = "AH"
    /\ hist[1].reg["EAX"] = Pattern1
    /\ reg["EAX"] = <<210, 255, 195, 165>>

-----------------------------------------------------------------------------
(* Jumps                                                                    *)

\* the condition under which each jump is taken, from the flags in m
Condition(mnemonic, m) ==
    CASE mnemonic = "JMP" -> TRUE
      [] mnemonic = "JE"  -> m.zf
      [] mnemonic = "JNE" -> ~m.zf
      [] mnemonic = "JG"  -> ~m.zf /\ (m.sf <=> m.of)
      [] mnemonic = "JGE" -> (m.sf <=> m.of)
      [] mnemonic = "JL"  -> ~(m.sf <=> m.of)
      [] mnemonic = "JLE" -> m.zf \/ ~(m.sf <=> m.of)
      [] mnemonic = "JA"  -> ~m.cf /\ ~m.zf
      [] mnemonic = "JAE" -> ~m.cf
      [] mnemonic = "JB"  -> m.cf
      [] mnemonic = "JBE" -> m.cf \/ m.zf

\* C7: for every combination of CF, ZF, SF, OF each jump is taken (EIP becomes
\* EIP-after-operand + disp) exactly under its condition; when not taken EIP is
\* at the token after the operand; a jump changes no flag, register, stack or
\* memory byte.
C7_Jump ==
    Dispatched(BranchMnemonics \ {"CALL"})
    => /\ status = "running"
       /\ eip = IF Condition(Tok(hist[1]).value, hist[1])
                THEN B4(Site + 2 + AsInt(text[Site + 2].int))
                ELSE B4(Site + 2)
       /\ <<cf, zf, sf, of>> = <<hist[1].cf, hist[1].zf, hist[1].sf, hist[1].of>>
       /\ reg = hist[1].reg
       /\ stack = hist[1].stack
       /\ memory = hist[1].memory

\* a `jg` found ZF clear and SF = OF = 1 and was taken, over `mov esi, 1`
C7_Witness ==
    /\ Dispatched({"JG"})
    /\ ~hist[1].zf /\ hist[1].sf /\ hist[1].of
    /\ eip = B4(Site + 2 + AsInt(text[Site + 2].int))
    /\ eip # B4(Site + 2)

-----------------------------------------------------------------------------
(* add and sub                                                              *)

\* the last dispatch was `mnemonic a, b` on two registers of one width, and the
\* instruction completed
OnRegisters(mnemonic) ==
    /\ Dispatched({mnemonic})
    /\ OperandIs(1, "REGISTER")
    /\ OperandIs(3, "REGISTER")
    /\ Cardinality(NamedBytes(text[Site + 2].value))
         = Cardinality(NamedBytes(text[Site + 4].value))
    /\ status = "running"

\* the operands of that instruction and their width in bytes
OperandA == Held(hist[1].reg, text[Site + 2].value)
OperandB == Held(hist[1].reg, text[Site + 4].value)
Width == Cardinality(NamedBytes(text[Site + 2].value))

\* the low and the high 16 bits of a u32
Lo16(b) == b[1] + 256 * b[2]
Hi16(b) == b[3] + 256 * b[4]

\* a < b as unsigned values
Below(a, b) == Hi16(a) < Hi16(b) \/ (Hi16(a) = Hi16(b) /\ Lo16(a) < Lo16(b))

\* C8: after `sub a, b` on operands of one width, ZF is set iff a = b and CF iff
\* a < b unsigned, so a `je` right after the `sub` branches iff a = b.
C8_SubZfCf ==
    /\ OnRegisters("SUB")
        => /\ zf <=> (OperandA = OperandB)
           /\ cf <=> Below(OperandA, OperandB)
    /\ (Dispatched({"JE"}) /\ DispatchedBefore({"SUB"}) /\ Site = SiteBefore + 4
            /\ text[SiteBefore + 2].type = "REGISTER"
            /\ text[SiteBefore + 4].type = "REGISTER")
        => /\ status = "running"
           /\ (eip = B4(index["L"]))
                <=> (Held(hist[2].reg, text[SiteBefore + 2].value)
                      = Held(hist[2].reg, text[SiteBefore + 4].value))
           /\ eip \in {B4(index["L"]), B4(Site + 2)}
           /\ index["L"] # Site + 2

\* `sub ax, bx` with AX = BX = 0x7FFF set ZF, and the `je` after it branched
C8_Witness ==
    /\ Dispatched({"JE"})
    /\ DispatchedBefore({"SUB"})
    /\ text[SiteBefore + 2].value = "AX"
    /\ text[SiteBefore + 4].value = "BX"
    /\ Held(hist[2].reg, "AX") = <<255, 127, 0, 0>>
    /\ Held(hist[2].reg, "BX") = <<255, 127, 0, 0>>
    /\ hist[1].zf /\ ~hist[1].cf
    /\ eip = B4(index["L"])

\* a w-byte value read as a signed number, in two halves: the signed high half
\* (of the value sign-extended to 32 bits) and the unsigned low half
SignedHi(b, w) ==
    CASE w = 1 -> IF b[1] >= 128 THEN -1 ELSE 0
      [] w = 2 -> IF b[2] >= 128 THEN -1 ELSE 0
      [] OTHER -> IF b[4] >= 128 THEN Hi16(b) - 65536 ELSE Hi16(b)
SignedLo(b, w) ==
    CASE w = 1 -> IF b[1] >= 128 THEN 65280 + b[1] ELSE b[1]
      [] OTHER -> Lo16(b)

\* the signed w-byte difference a - b, as high * 65536 + low with 0 <= low < 65536
DifferenceHi(a, b, w) ==
    SignedHi(a, w) - SignedHi(b, w) - (IF SignedLo(a, w) < SignedLo(b, w) THEN 1 ELSE 0)
DifferenceLo(a, b, w) ==
    (SignedLo(a, w) - SignedLo(b, w) + 65536) % 65536

\* the signed difference a - b is representable in w bytes
DifferenceFits(a, b, w) ==
    CASE w = 1 -> \/ DifferenceHi(a, b, w) = 0 /\ DifferenceLo(a, b, w) < 128
                  \/ DifferenceHi(a, b, w) = -1 /\ DifferenceLo(a, b, w) >= 65536 - 128
      [] w = 2 -> \/ DifferenceHi(a, b, w) = 0 /\ DifferenceLo(a, b, w) < 32768
                  \/ DifferenceHi(a, b, w) = -1 /\ DifferenceLo(a, b, w) >= 32768
      [] OTHER -> DifferenceHi(a, b, w) \in -32768..32767

\* C9: after `sub a, b` on operands of one width w whose signed w-byte
\* difference does not overflow, SF is set iff a < b as signed w-byte values.
C9_SubSf ==
    (OnRegisters("SUB") /\ DifferenceFits(OperandA, OperandB, Width))
    => (sf <=> DifferenceHi(OperandA, OperandB, Width) < 0)

\* C9 at the width of the registers: the same for 4-byte operands
C9_SubSf_Dword ==
    (OnRegisters("SUB") /\ Width = 4 /\ DifferenceFits(OperandA, OperandB, Width))
    => (sf <=> DifferenceHi(OperandA, OperandB, Width) < 0)

\* the sum a + b in two halves: the low 16 bits with their carry, the rest
SumLo(a, b) == Lo16(a) + Lo16(b)
SumHi(a, b) == Hi16(a) + Hi16(b) + SumLo(a, b) \div 65536

\* byte k (1 = least significant) of a + b
SumByte(a, b, k) ==
    CASE k = 1 -> SumLo(a, b) % 256
      [] k = 2 -> (SumLo(a, b) \div 256) % 256
      [] k = 3 -> SumHi(a, b) % 256
      [] k = 4 -> (SumHi(a, b) \div 256) % 256

\* a + b >= 2^(8w)
SumCarries(a, b, w) ==
    CASE w = 1 -> SumLo(a, b) >= 256
      [] w = 2 -> SumLo(a, b) >= 65536
      [] OTHER -> SumHi(a, b) >= 65536

\* C10: `add dst, src` on operands of one width w stores (a + b) mod 2^(8w) in
\* dst, leaves the other bytes of the containing register unchanged and sets CF
\* iff a + b >= 2^(8w).
C10_Add ==
    OnRegisters("ADD")
    => /\ \A k \in 1..Width :
             Held(reg, text[Site + 2].value)[k] = SumByte(OperandA, OperandB, k)
       /\ \A k \in (1..4) \ NamedBytes(text[Site + 2].value) :
             reg[Dword(text[Site + 2].value)][k]
               = hist[1].reg[Dword(text[Site + 2].value)][k]
       /\ cf <=> SumCarries(OperandA, OperandB, Width)

\* `add ah, bh` with AH = 0xFF, BH = 0x02 on EAX = A5C3..D2 left AH = 0x01, the
\* other three bytes of EAX as they were, and CF set
C10_Witness ==
    /\ OnRegisters("ADD")
    /\ text[Site + 2].value = "AH"
    /\ hist[1].reg["EAX"] = <<210, 255, 195, 165>>
    /\ hist[1].reg["EBX"][2] = 2
    /\ reg["EAX"] = <<210, 1, 195, 165>>
    /\ cf

-----------------------------------------------------------------------------
(* The overflow flag                                                        *)

\* the signed w-byte sum a + b, as high * 65536 + low with 0 <= low < 65536
SignedSumHi(a, b, w) ==
    SignedHi(a, w) + SignedHi(b, w) + (SignedLo(a, w) + SignedLo(b, w)) \div 65536
SignedSumLo(a, b, w) == (SignedLo(a, w) + SignedLo(b, w)) % 65536

\* the signed sum a + b is representable in w bytes
SumFits(a, b, w) ==
    CASE w = 1 -> \/ SignedSumHi(a, b, w) = 0 /\ SignedSumLo(a, b, w) < 128
                  \/ SignedSumHi(a, b, w) = -1 /\ SignedSumLo(a, b, w) >= 65536 - 128
      [] w = 2 -> \/ SignedSumHi(a, b, w) = 0 /\ SignedSumLo(a, b, w) < 32768
                  \/ SignedSumHi(a, b, w) = -1 /\ SignedSumLo(a, b, w) >= 32768
      [] OTHER -> SignedSumHi(a, b, w) \in -32768..32767

\* C11: after `add` (resp. `sub`) on operands of one width w, OF is set iff the
\* sum (resp. the difference a - b) of the operands read as signed w-byte
\* values is not representable in w bytes.
C11_AddSubOf ==
    /\ OnRegisters("ADD") => (of <=> ~SumFits(OperandA, OperandB, Width))
    /\ OnRegisters("SUB") => (of <=> ~DifferenceFits(OperandA, OperandB, Width))

\* C11 where the code agrees: `add` on 4-byte operands
C11_AddOf_Dword ==
    (OnRegisters("ADD") /\ Width = 4) => (of <=> ~SumFits(OperandA, OperandB, Width))

-----------------------------------------------------------------------------
(* The zero and sign flags                                                  *)

\* the last dispatch was add, sub, and, or or xor into a register, completed
IntoRegister ==
    /\ Dispatched({"ADD", "SUB", "AND", "OR", "XOR"})
    /\ OperandIs(1, "REGISTER")
    /\ status = "running"

\* the w-byte result that instruction has written to its destination
Written == Held(reg, text[Site + 2].value)

\* C12: after add, sub, and, or, xor on a destination of width w, ZF is set iff
\* the w-byte result written to the destination is zero, and SF equals the most
\* significant bit (bit 8w-1) of that w-byte result.
C12_ZfSf ==
    IntoRegister
    => /\ zf <=> (Written = Z4)
       /\ sf <=> (Written[Width] >= 128)

\* C12 at the width of the registers: the same for 4-byte destinations
C12_ZfSf_Dword == (IntoRegister /\ Width = 4) => C12_ZfSf

-----------------------------------------------------------------------------
(* cmp                                                                      *)

\* the last dispatch was `cmp a, b` on two registers of one width
CmpOnRegisters ==
    /\ Dispatched({"CMP"})
    /\ OperandIs(1, "REGISTER")
    /\ OperandIs(3, "REGISTER")
    /\ Cardinality(NamedBytes(text[Site + 2].value))
         = Cardinality(NamedBytes(text[Site + 4].value))

\* the last dispatch was `cmp a, n` on a register and an unsigned literal
CmpOnLiteral ==
    /\ Dispatched({"CMP"})
    /\ OperandIs(1, "REGISTER")
    /\ OperandIs(3, "IMMEDIATE_DATA")

\* the last dispatch wrote no register, stack or memory byte
NothingWritten ==
    /\ reg = hist[1].reg
    /\ stack = hist[1].stack
    /\ memory = hist[1].memory

\* C13: `cmp dst, src` completes for all operand values, writes no register or
\* memory byte, and sets CF iff dst < src unsigned, ZF iff dst = src, SF iff the
\* difference of the sign-extended operands is negative as a 32-bit value, and
\* OF iff the signed subtraction dst - src overflows; also when src is an
\* immediate narrower than dst.
C13_Cmp ==
    /\ CmpOnRegisters
        => /\ status = "running"
           /\ NothingWritten
           /\ cf <=> Below(OperandA, OperandB)
           /\ zf <=> (OperandA = OperandB)
           /\ sf <=> (DifferenceHi(OperandA, OperandB, Width) % 65536 >= 32768)
           /\ of <=> (DifferenceHi(OperandA, OperandB, Width) \notin -32768..32767)
    /\ CmpOnLiteral
        => /\ status = "running"
           /\ NothingWritten
           /\ cf <=> Below(OperandA, text[Site + 4].int)
           /\ zf <=> (OperandA = text[Site + 4].int)

\* C13 for what a `cmp` that completes does about CF, ZF and the operands: it
\* writes nothing, CF is the unsigned borrow and ZF the equality
C13_Cmp_Completed ==
    /\ (CmpOnRegisters /\ status = "running")
        => /\ NothingWritten
           /\ cf <=> Below(OperandA, OperandB)
           /\ zf <=> (OperandA = OperandB)
    /\ (CmpOnLiteral /\ status = "running")
        => /\ NothingWritten
           /\ cf <=> Below(OperandA, text[Site + 4].int)
           /\ zf <=> (OperandA = text[Site + 4].int)

-----------------------------------------------------------------------------
(* Instructions that leave the flags alone                                  *)

\* C14: mov never changes CF, ZF, SF or OF, and neither do movzx, movsx, push,
\* pop, the jumps, call, ret, enter and leave: the four flags after any of these
\* instructions are the flags before it.
C14_FlagsKept ==
    Dispatched({"MOV", "MOVZX", "MOVSX", "PUSH", "POP", "CALL", "RET", "ENTER", "LEAVE"}
               \cup BranchMnemonics)
    => <<cf, zf, sf, of>> = <<hist[1].cf, hist[1].zf, hist[1].sf, hist[1].of>>

\* a `leave` right after an `enter`, found CF, ZF and OF set by `add eax, eax`
\* on EAX = 0x80000000, has restored ESP and EBP and left the flags as they were
C14_Witness ==
    /\ Dispatched({"LEAVE"})
    /\ DispatchedBefore({"ENTER"})
    /\ hist[2].cf /\ hist[2].zf /\ ~hist[2].sf /\ hist[2].of
    /\ status = "running"
    /\ cf /\ zf /\ ~sf /\ of
    /\ reg["ESP"] = hist[2].reg["ESP"]
    /\ reg["EBP"] = hist[2].reg["EBP"]
    /\ reg["EBX"] = <<254, 255, 255, 255>>
    /\ reg["ECX"] = <<255, 0, 0, 0>>

-----------------------------------------------------------------------------
(* div and idiv                                                             *)

\* the last dispatch was `div r` or `idiv r` on a register r holding no zero
DivByRegister ==
    /\ Dispatched({"DIV", "IDIV"})
    /\ OperandIs(1, "REGISTER")
    /\ Held(hist[1].reg, text[Site + 2].value) # Z4

\* the dividend of that instruction where it is a small non-negative number
\* (its upper half zero): AX, DX:AX or EDX:EAX by the size of the divisor
SmallDividend ==
    /\ Width = 1 => hist[1].reg["EAX"][2] < 128
    /\ Width = 2 => Lo16(hist[1].reg["EDX"]) = 0
    /\ Width = 4 => hist[1].reg["EDX"] = Z4 /\ hist[1].reg["EAX"][4] = 0
Dividend ==
    IF Width = 4 THEN Val24(hist[1].reg["EAX"]) ELSE Lo16(hist[1].reg["EAX"])
Divisor == Val24(Held(hist[1].reg, text[Site + 2].value))

\* C15: `div src` and `idiv src` with a non-zero divisor of size s complete and
\* leave the quotient and the remainder of the 2s-byte dividend (AX for s = 1,
\* DX:AX for s = 2, EDX:EAX for s = 4) in AL and AH for s = 1, AX and DX for
\* s = 2, EAX and EDX for s = 4.
C15_Div ==
    DivByRegister
    => /\ status = "running"
       /\ SmallDividend
           => /\ Width = 1 => /\ Held(reg, "AL") = B4((Dividend \div Divisor) % 256)
                              /\ Held(reg, "AH") = B4(Dividend % Divisor)
              /\ Width = 2 => /\ Held(reg, "AX") = B4((Dividend \div Divisor) % 65536)
                              /\ Held(reg, "DX") = B4(Dividend % Divisor)
              /\ Width = 4 => /\ Held(reg, "EAX") = B4(Dividend \div Divisor)
                              /\ Held(reg, "EDX") = B4(Dividend % Divisor)

\* what `div` and `idiv` do instead: every one of them aborts the run, with the
\* registers as they were
C15_DivAborts ==
    Dispatched({"DIV", "IDIV"}) => (status = "panic" /\ NothingWritten)

-----------------------------------------------------------------------------
(* C16: integer literals                                                    *)

\* the value a literal denotes in the base its prefix selects
Meant(t) ==
    IF Len(t) > 2 /\ t[1] = "0" /\ t[2] \in {"x", "X"}
    THEN from_str_radix(SubSeq(t, 3, Len(t)), 16).v
    ELSE IF Len(t) > 1 /\ t[1] = "0" THEN from_str_radix(Tail(t), 8).v
    ELSE from_str_radix(t, 10).v

\* the stream of `mov eax, <t>` is the mnemonic, the register, the comma and
\* one IMMEDIATE_DATA token holding the value t denotes
OneToken(t) ==
    /\ ScannedLiterals[t].ok
    /\ Len(source) = 4
    /\ source[4].type = "IMMEDIATE_DATA"
    /\ source[4].int = Meant(t)

\* C16: the scanner turns every integer literal into exactly one
\* IMMEDIATE_DATA token whose value is the literal's value in base 16 after a
\* 0x or 0X prefix, in base 8 after a leading 0 followed by octal digits and in
\* base 10 otherwise; and the run of
\* `mov eax, 0 ; mov al, 0xFF ; mov ah, 0x12 ; int 0x80` ends halted with
\* EAX = 0x000012FF
C16_Literals ==
    /\ \A t \in Literals : source = ScannedLiterals[t].tokens => OneToken(t)
    /\ source = ScannedHexFile.tokens /\ status \notin {"new", "running"}
       => status = "halted" /\ reg["EAX"] = <<255, 18, 0, 0>>

\* C16, as far as it holds: a literal with no prefix (no leading 0, or the
\* single digit 0) becomes one IMMEDIATE_DATA token holding its decimal value
C16_DecimalLiterals ==
    \A t \in Literals :
        source = ScannedLiterals[t].tokens /\ (t[1] # "0" \/ Len(t) = 1) => OneToken(t)

\* what the scanner does with a prefix instead: the 0 alone becomes the
\* IMMEDIATE_DATA token (a decimal 0) and the rest a LABEL, or the octal digits
\* are read as decimal ones
C16_PrefixNeverSeen ==
    \A t \in Literals :
        source = ScannedLiterals[t].tokens /\ Len(t) > 1 /\ t[1] = "0" =>
            IF t[2] \in {"x", "X"}
            THEN /\ Len(source) = 5
                 /\ source[4].type = "IMMEDIATE_DATA" /\ source[4].int = Z4
                 /\ source[5].type = "LABEL" /\ source[5].name = Text(Tail(t))
            ELSE /\ Len(source) = 4
                 /\ source[4].int = from_str_radix(t, 10).v

-----------------------------------------------------------------------------
(* C17: address expressions                                                 *)

\* the tokens between the brackets of the instruction dispatched last
Bracketed ==
    LET close == CHOOSE j \in (Site + 5)..Len(text) :
                     /\ text[j].value = "RBRACK"
                     /\ \A k \in (Site + 5)..(j - 1) : text[k].value # "RBRACK"
    IN  SubSeq(text, Site + 5, close - 1)

\* the instruction dispatched last is a `mov byte ptr [ ... ], <literal>`
StoreToAddress ==
    /\ Dispatched({"MOV"})
    /\ OperandIs(1, "KEYWORD")
    /\ text[Site + 2].value = "BYTE"
    /\ OperandIs(3, "SYMBOL")
    /\ text[Site + 4].value = "LBRACK"
    /\ text[Site + 5 + Len(Bracketed) + 2].type = "IMMEDIATE_DATA"

\* the literal it stores
Stored == text[Site + 5 + Len(Bracketed) + 2].int

\* what an operand of the expression stands for: the literal, or the register
\* as it was before the instruction
Atom(tok) == IF tok.type = "REGISTER" THEN Held(hist[1].reg, tok.value) ELSE tok.int

\* the value modulo 2^32 of the expression from its i-th token (an operator)
\* on: acc is the sum of the terms before the open one, op the sign of the
\* open term and term the product it has reached
RECURSIVE Sum(_, _, _, _, _)
Sum(toks, i, acc, op, term) ==
    LET closed == IF op = "MINUS" THEN AddC(acc, NotW(term), 1).v
                  ELSE AddC(acc, term, 0).v
    IN  IF i > Len(toks) THEN closed
        ELSE IF toks[i].value = "TIMES"
             THEN Sum(toks, i + 2, acc, op, overflowing_mul(term, Atom(toks[i + 1])).v)
        ELSE Sum(toks, i + 2, closed, toks[i].value, Atom(toks[i + 1]))

\* the value of an expression under ordinary precedence (`*` before `+` and
\* `-`) and left associativity, modulo 2^32; a leading `-` negates a literal
ExpressionValue(toks) ==
    IF toks[1].value = "MINUS"
    THEN Sum(toks, 3, Z4, "PLUS", overflowing_neg(toks[2].int).v)
    ELSE Sum(toks, 2, Z4, "PLUS", Atom(toks[1]))

\* the literal was stored in the byte at address `a` and nowhere else, or
\* nowhere at all when `a` lies outside the memory
StoredAt(a) ==
    IF AsIndex(a) < MAX
    THEN /\ status = "running"
         /\ memory = StoreBytes(hist[1].memory, AsIndex(a), 1, Stored)
    ELSE memory = hist[1].memory

\* C17: the address of a memory operand is the value of its bracketed
\* expression under ordinary precedence and left associativity, modulo 2^32,
\* for any number of terms: `[a + b + c]`, `[a * b + c]`, `[a + b * c]`
C17_Address == StoreToAddress => StoredAt(ExpressionValue(Bracketed))

\* C17 for one operand, for two, and for `a + b * c` and `a - b * c`, in a
\* release build
C17_Address_UpToTwoTerms ==
    /\ StoreToAddress
    /\ build = "release"
    /\ \/ Len(Bracketed) <= 3
       \/ Len(Bracketed) = 5 /\ Bracketed[4].value = "TIMES"
                             /\ Bracketed[2].value # "TIMES"
    => StoredAt(ExpressionValue(Bracketed))

\* what the code computes for three operands whose first operator binds at
\* least as tightly as the second: the first operand combined with the last
\* by the last operator
C17_FirstAndLast ==
    /\ StoreToAddress
    /\ build = "release"
    /\ Len(Bracketed) = 5
    /\ Bracketed[1].value # "MINUS"
    /\ ~(Bracketed[4].value = "TIMES" /\ Bracketed[2].value # "TIMES")
    => StoredAt(ExpressionValue(<<Bracketed[1], Bracketed[4], Bracketed[5]>>))

-----------------------------------------------------------------------------
(* C18: how a run ends                                                      *)

\* VM::run has returned or the process has aborted
Ended == status \in {"halted", "panic"}

\* a run that returned did so at an `int` or at the `ret` that brought the
\* call depth to 0 (an aborted run is the third way)
ThreeWays ==
    status = "halted" => \/ Dispatched({"INT"})
                         \/ Dispatched({"RET"}) /\ depth = 0

\* C18: every run of the VM eventually ends, in one of exactly three ways: an
\* `int` is dispatched, the call depth reaches 0 by a `ret`, or a fatal error
\* aborts it; the dispatch loop has no other exit
C18_Ends == (<>Ended) /\ [](ThreeWays)

\* C18 without the promise that the run ends: fails at the 255th nested call
\* of a release build
C18_NoOtherExit == ThreeWays

\* the exits the loop has: the three of C18 and the `call` that wraps the
\* 8-bit call depth from 255 to 0 in a release build
C18_FourExits ==
    status = "halted" => \/ Dispatched({"INT"})
                         \/ Dispatched({"RET"}) /\ depth = 0
                         \/ /\ Dispatched({"CALL"})
                            /\ build = "release"
                            /\ hist[1].depth = 255
                            /\ depth = 0

\* C18's promise alone: fails on a program that loops, `L: jmp L`
C18_Terminates == <>Ended

-----------------------------------------------------------------------------
(* C19: the countdown loop                                                 *)

\* 2^k for the small k of the countdown programs
RECURSIVE Doubled(_)
Doubled(k) == IF k = 0 THEN 1 ELSE 2 * Doubled(k - 1)

\* the run stands at the loop body, `add eax, eax`
AtBody == AtInstruction({"ADD"})

\* the `jne` at the foot of the loop was the last instruction dispatched, and
\* it fell through to the token after its operand
FellThrough ==
    /\ Dispatched({"JNE"})
    /\ status = "running"
    /\ Val24(eip) = Site + 2

\* the `jne` at the foot of the loop was the last instruction dispatched, and
\* it went back to L
WentBack ==
    /\ Dispatched({"JNE"})
    /\ status = "running"
    /\ Val24(eip) # Site + 2

\* the scanner's stream for CountdownFile
ScannedCountdown == TokenStream(CountdownFile).tokens

\* the countdown programs entered with ECX = n: the token stream that ends in
\* `int 128` and, for n = 5, the scanned file that ends in `ret`
Countdowns(n) == {CountdownProgram(n)} \cup (IF n = 5 THEN {ScannedCountdown} ELSE {})

C19_Halts ==
    (source \in CountdownPrograms \cup {ScannedCountdown}) ~> (status = "halted")

-----------------------------------------------------------------------------
(* C20: the width at which the source is read                              *)

\* the last dispatch was add, sub, and, or or xor of an integer literal into a
\* register, completed
LiteralIntoRegister ==
    /\ IntoRegister
    /\ \/ OperandIs(3, "IMMEDIATE_DATA")
       \/ OperandIs(4, "IMMEDIATE_DATA") /\ text[Site + 4].value = "MINUS"

\* the literal was written with a minus sign
Negated == text[Site + 4].value = "MINUS"

\* the 32-bit two's-complement value of that literal
Literal32 ==
    IF Negated THEN overflowing_neg(text[Site + 5].int).v ELSE text[Site + 4].int

\* the least of 1, 2 and 4 bytes that hold the literal, signed where it is
\* negative
LiteralSize ==
    IF Negated /\ text[Site + 5].int # Z4
    THEN IF Hi16(text[Site + 5].int) = 0 /\ Lo16(text[Site + 5].int) <= 128 THEN 1
         ELSE IF Hi16(text[Site + 5].int) = 0 /\ Lo16(text[Site + 5].int) <= 32768 THEN 2
         ELSE 4
    ELSE IF Hi16(Literal32) = 0 /\ Lo16(Literal32) <= 255 THEN 1
         ELSE IF Hi16(Literal32) = 0 THEN 2
         ELSE 4

\* the low w bytes of b, the rest zero
AtWidth(b, w) == [k \in 1..4 |-> IF k <= w THEN b[k] ELSE 0]

\* a op b on 32 bits
Combined(op, a, b) ==
    CASE op = "ADD" -> overflowing_add(a, b).v
      [] op = "SUB" -> overflowing_sub(a, b).v
      [] OTHER -> Bitwise(op, a, b)

\* C20: add, sub, and, or, xor with an immediate source leave in the
\* destination, of width w, a op b where b is the 32-bit two's-complement value
\* of the immediate truncated to w bytes; so `add eax, -1` leaves EAX - 1 and
\* `and eax, -1` leaves EAX unchanged
C20_SourceAtWidth ==
    LiteralIntoRegister
    => Written = AtWidth(Combined(text[Site + 1].value, OperandA,
                                  AtWidth(Literal32, Width)), Width)

\* C20 as the code has it: the immediate is read at its own size, zero-extended
C20_SourceAtOwnSize ==
    LiteralIntoRegister
    => /\ LiteralSize <= Width
       /\ Written = AtWidth(Combined(text[Site + 1].value, OperandA,
                                     AtWidth(Literal32, LiteralSize)), Width)

\* C20 where the two agree: the immediate is not negative, or it is as wide as
\* the destination
C20_SourceAtWidth_Unsigned ==
    (LiteralIntoRegister /\ (~Negated \/ LiteralSize = Width)) => C20_SourceAtWidth

\* `and eax, -1` has changed EAX: it kept the low byte only
C20_AndMinusOne ==
    /\ LiteralIntoRegister
    /\ text[Site + 1].value = "AND"
    /\ text[Site + 2].value = "EAX"
    /\ Negated
    /\ text[Site + 5].int = B4(1)
    /\ reg["EAX"] = AtWidth(hist[1].reg["EAX"], 1)
    /\ reg["EAX"] # hist[1].reg["EAX"]

\* `add eax, -1` has added 255 to EAX
C20_AddMinusOne ==
    /\ LiteralIntoRegister
    /\ text[Site + 1].value = "ADD"
    /\ text[Site + 2].value = "EAX"
    /\ Negated
    /\ text[Site + 5].int = B4(1)
    /\ reg["EAX"] = overflowing_add(hist[1].reg["EAX"], B4(255)).v
    /\ reg["EAX"] # overflowing_sub(hist[1].reg["EAX"], B4(1)).v
-----------------------------------------------------------------------------
(* C21: the sizes of a mov                                                  *)

\* the last dispatch was a mov into a register
MovIntoRegister == Dispatched({"MOV"}) /\ OperandIs(1, "REGISTER")

\* ... of an integer literal
MovOfLiteral ==
    /\ MovIntoRegister
    /\ \/ OperandIs(3, "IMMEDIATE_DATA")
       \/ OperandIs(4, "IMMEDIATE_DATA") /\ text[Site + 4].value = "MINUS"

\* ... of a register
MovOfRegister == MovIntoRegister /\ OperandIs(3, "REGISTER")

\* the source of the last dispatch is a sized memory operand `<keyword> ptr [8]`
AtEight ==
    /\ OperandIs(3, "KEYWORD")
    /\ OperandIs(6, "IMMEDIATE_DATA")
    /\ text[Site + 7].int = B4(8)
    /\ OperandIs(7, "SYMBOL")
    /\ text[Site + 8].value = "RBRACK"

\* ... of a sized memory operand `<keyword> ptr [8]`
MovOfMemory == MovIntoRegister /\ AtEight

\* the size a keyword names
KeywordSize(keyword) ==
    CASE keyword = "BYTE" -> 1 [] keyword = "WORD" -> 2 [] OTHER -> 4

\* the size of the destination and of a register or memory source of the last
\* dispatch
DstSize == SizeOf(text[Site + 2].value)
SrcSize ==
    IF OperandIs(3, "REGISTER") THEN SizeOf(text[Site + 4].value)
    ELSE KeywordSize(text[Site + 4].value)

\* the bytes of the source before it: of the register, or of memory at 8
SrcHeld ==
    IF OperandIs(3, "REGISTER") THEN Held(hist[1].reg, text[Site + 4].value)
    ELSE [k \in 1..4 |-> IF k <= SrcSize THEN ByteAt(hist[1].memory, 8 + k - 1) ELSE 0]

\* the last dispatch was a fatal error and has written nothing
Rejected ==
    /\ status = "panic"
    /\ reg = hist[1].reg
    /\ memory = hist[1].memory
    /\ stack = hist[1].stack

\* the last dispatch has completed and the destination holds value, the other bytes of
\* its register being as they were
Accepted(value) ==
    /\ status = "running"
    /\ Written = AtWidth(value, DstSize)
    /\ \A k \in (1..4) \ NamedBytes(text[Site + 2].value) :
          reg[Dword(text[Site + 2].value)][k] = hist[1].reg[Dword(text[Site + 2].value)][k]

-----------------------------------------------------------------------------
(* C22: movzx and movsx                                                     *)

\* the last dispatch was a movzx or a movsx into a register from a register or
\* a sized memory operand
Extending ==
    /\ Dispatched({"MOVSX", "MOVZX"})
    /\ OperandIs(1, "REGISTER")
    /\ OperandIs(3, "REGISTER") \/ AtEight

\* the w-byte value v with copies of its most significant bit above it
SignExtended(v, w) ==
    [k \in 1..4 |-> IF k <= w THEN v[k] ELSE IF v[w] >= 128 THEN 255 ELSE 0]

\* C22: `movzx dst, src` and `movsx dst, src` with dst.size > src.size write
\* to dst the value of src extended to dst.size with zeros (movzx) or with
\* copies of src's most significant bit (movsx) and leave the bytes of the
\* containing register outside dst unchanged; with dst.size <= src.size the
\* instruction is a fatal error and dst is unchanged
C22_Extend ==
    Extending =>
        IF DstSize > SrcSize
        THEN Accepted(IF text[Site + 1].value = "MOVSX"
                      THEN SignExtended(SrcHeld, SrcSize) ELSE SrcHeld)
        ELSE Rejected

\* `movsx ax, bl` with BL = 0x80 on EAX = A5C3B4D2 has left EAX = A5C3FF80
C22_Witness ==
    /\ Extending
    /\ text[Site + 1].value = "MOVSX"
    /\ text[Site + 2].value = "AX"
    /\ text[Site + 4].value = "BL"
    /\ hist[1].reg["EBX"][1] = 128
    /\ hist[1].reg["EAX"] = Pattern1
    /\ reg["EAX"] = <<128, 255, 195, 165>>
    /\ status = "running"
-----------------------------------------------------------------------------
(* C23: mul                                                                 *)

\* the last dispatch was a mul by a register or by memory at 8, completed
Multiplied ==
    /\ Dispatched({"MUL"})
    /\ status = "running"
    /\ OperandIs(1, "REGISTER")
       \/ (OperandIs(1, "KEYWORD") /\ OperandIs(4, "IMMEDIATE_DATA")
           /\ text[Site + 5].int = B4(8))

\* the size of the multiplier, its bytes and those of the multiplicand before
\* the mul
MulSize ==
    IF OperandIs(1, "REGISTER") THEN SizeOf(text[Site + 2].value)
    ELSE KeywordSize(text[Site + 2].value)
Multiplier ==
    IF OperandIs(1, "REGISTER") THEN Held(hist[1].reg, text[Site + 2].value)
    ELSE [k \in 1..4 |-> IF k <= MulSize THEN ByteAt(hist[1].memory, 8 + k - 1) ELSE 0]
Multiplicand == AtWidth(hist[1].reg["EAX"], MulSize)

\* byte k (1..8) of the product
Product == wide_mul(Multiplicand, Multiplier)

\* the upper half of the 2s-byte product is not zero
UpperHalf == \E k \in (MulSize + 1)..(2 * MulSize) : Product[k] # 0

\* C23: `mul src` with src of size s multiplies the low s bytes of EAX by src
\* as unsigned values and stores the full 2s-byte product: in AX for s = 1, in
\* DX:AX for s = 2 (bits 16-31 of EAX and EDX unchanged), in EDX:EAX for s = 4;
\* CF and OF are both set iff the upper half of the product is non-zero
C23_Mul ==
    Multiplied =>
        /\ MulSize = 1 =>
              /\ reg["EAX"] = <<Product[1], Product[2], hist[1].reg["EAX"][3],
                                hist[1].reg["EAX"][4]>>
              /\ reg["EDX"] = hist[1].reg["EDX"]
        /\ MulSize = 2 =>
              /\ reg["EAX"] = <<Product[1], Product[2], hist[1].reg["EAX"][3],
                                hist[1].reg["EAX"][4]>>
              /\ reg["EDX"] = <<Product[3], Product[4], hist[1].reg["EDX"][3],
                                hist[1].reg["EDX"][4]>>
        /\ MulSize = 4 =>
              /\ reg["EAX"] = <<Product[1], Product[2], Product[3], Product[4]>>
              /\ reg["EDX"] = <<Product[5], Product[6], Product[7], Product[8]>>
        /\ cf <=> UpperHalf
        /\ of <=> UpperHalf
        /\ \A r \in RegNames \ {"EAX", "EDX"} : reg[r] = hist[1].reg[r]

\* `mul bx` with AX = BX = FFFF on EAX = A5C3B4D2, EDX = 44332211 has left
\* DX:AX = FFFE0001, the upper halves of EAX and EDX as they were, CF and OF set
C23_Witness ==
    /\ Multiplied
    /\ text[Site + 2].value = "BX"
    /\ hist[1].reg["EAX"] = <<255, 255, 195, 165>>
    /\ hist[1].reg["EBX"] = <<255, 255, 0, 0>>
    /\ reg["EAX"] = <<1, 0, 195, 165>>
    /\ reg["EDX"] = <<254, 255, 51, 68>>
    /\ cf
    /\ of
-----------------------------------------------------------------------------
(* C24: inc, dec and the carry flag                                         *)

\* the last dispatch was one of these mnemonics on a register, completed
OnRegister(mnemonics) ==
    /\ Dispatched(mnemonics)
    /\ OperandIs(1, "REGISTER")
    /\ status = "running"

\* the operand of that instruction before it, and its width
Operand == Held(hist[1].reg, text[Site + 2].value)

\* the operand was all ones at its width
AllOnes == Operand = AtWidth(<<255, 255, 255, 255>>, Width)

\* C24: `inc` and `dec` leave CF unchanged for every operand width (1, 2 or 4
\* bytes) and every operand value, including `inc` of an all-ones operand and
\* `dec` of zero
C24_IncDecCf == OnRegister({"INC", "DEC"}) => (cf <=> hist[1].cf)

\* C24 where the code agrees: 4-byte operands, and narrower operands unless
\* the value wraps
C24_IncDecCf_NoWrap ==
    /\ (OnRegister({"INC", "DEC"}) /\ Width = 4) => (cf <=> hist[1].cf)
    /\ (OnRegister({"INC"}) /\ ~AllOnes) => (cf <=> hist[1].cf)
    /\ (OnRegister({"DEC"}) /\ Operand # Z4) => (cf <=> hist[1].cf)

\* what the code does at 1 and 2 bytes: an `inc` of all ones and a `dec` of
\* zero set CF
C24_WrapSetsCf ==
    /\ (OnRegister({"INC"}) /\ Width < 4 /\ AllOnes) => cf
    /\ (OnRegister({"DEC"}) /\ Width < 4 /\ Operand = Z4) => cf

\* `inc al` with AL = FF has set a CF that was clear
C24_IncSetsCf ==
    /\ OnRegister({"INC"})
    /\ text[Site + 2].value = "AL"
    /\ AllOnes
    /\ ~hist[1].cf
    /\ cf
-----------------------------------------------------------------------------
(* C25: not                                                                 *)

\* the bitwise complement of the w-byte value v
Complement(v, w) == AtWidth(NotW(v), w)

\* the four flags are as they were before the last dispatch
FlagsAsBefore ==
    /\ cf <=> hist[1].cf
    /\ zf <=> hist[1].zf
    /\ sf <=> hist[1].sf
    /\ of <=> hist[1].of

\* C25: `not dst` replaces dst by its bitwise complement at dst's width and
\* leaves CF, ZF, SF and OF exactly as they were
C25_Not ==
    OnRegister({"NOT"}) => (Written = Complement(Operand, Width) /\ FlagsAsBefore)

\* C25 for the value and for CF and OF, which the code keeps
C25_Not_ValueCfOf ==
    OnRegister({"NOT"})
    => /\ Written = Complement(Operand, Width)
       /\ \A k \in (1..4) \ NamedBytes(text[Site + 2].value) :
             reg[Dword(text[Site + 2].value)][k]
               = hist[1].reg[Dword(text[Site + 2].value)][k]
       /\ cf <=> hist[1].cf
       /\ of <=> hist[1].of

\* what the code does about ZF and SF: they are those of the 32-bit complement
\* of the zero-extended operand
C25_Not_ZfSf ==
    OnRegister({"NOT"})
    => /\ zf <=> NotW(Operand) = Z4
       /\ sf <=> NotW(Operand)[4] >= 128

\* `not al` with AL = 1, entered with ZF set and SF clear, has cleared ZF and
\* set SF
C25_NotChangesFlags ==
    /\ OnRegister({"NOT"})
    /\ text[Site + 2].value = "AL"
    /\ Operand = B4(1)
    /\ hist[1].zf /\ ~hist[1].sf
    /\ ~zf /\ sf
-----------------------------------------------------------------------------
(* C26: neg                                                                 *)

\* 0 - v at w bytes
Negation(v, w) == AtWidth(overflowing_neg(v).v, w)

\* the w-byte value v is the most negative of its width
MostNegative(v, w) == v = [k \in 1..4 |-> IF k = w THEN 128 ELSE 0]

\* C26: `neg dst` stores the two's-complement negation of dst at dst's width,
\* sets CF iff the operand was non-zero, sets OF iff the operand was the most
\* negative value of its width (and clears it otherwise), and sets SF and ZF
\* from the result: ZF iff the w-byte result is zero, SF its top bit
C26_Neg ==
    OnRegister({"NEG"})
    => /\ Written = Negation(Operand, Width)
       /\ cf <=> Operand # Z4
       /\ of <=> MostNegative(Operand, Width)
       /\ zf <=> Written = Z4
       /\ sf <=> Written[Width] >= 128

\* C26 for the value, CF and ZF, which the code gets right
C26_Neg_ValueCfZf ==
    OnRegister({"NEG"})
    => /\ Written = Negation(Operand, Width)
       /\ \A k \in (1..4) \ NamedBytes(text[Site + 2].value) :
             reg[Dword(text[Site + 2].value)][k]
               = hist[1].reg[Dword(text[Site + 2].value)][k]
       /\ cf <=> Operand # Z4
       /\ zf <=> Written = Z4

\* what the code does about OF and SF: OF is left as it was, SF is bit 31 of
\* the 32-bit negation of the zero-extended operand
C26_Neg_OfSf ==
    OnRegister({"NEG"})
    => /\ of <=> hist[1].of
       /\ sf <=> overflowing_neg(Operand).v[4] >= 128

\* `neg al` with AL = 80, entered with OF clear, has left OF clear
C26_NegKeepsOf ==
    /\ OnRegister({"NEG"})
    /\ text[Site + 2].value = "AL"
    /\ Operand = B4(128)
    /\ ~hist[1].of
    /\ ~of

\* `neg al` with AL = FF has left AL = 01 with SF set
C26_NegSetsSf ==
    /\ OnRegister({"NEG"})
    /\ text[Site + 2].value = "AL"
    /\ Operand = B4(255)
    /\ Written = B4(1)
    /\ sf
-----------------------------------------------------------------------------
(* C27: shl                                                                 *)

\* the last dispatch was one of these shifts of a register by a literal count,
\* completed
Shifted(mnemonics) == OnRegister(mnemonics) /\ OperandIs(3, "IMMEDIATE_DATA")

\* the count of that shift
Count == Val24(text[Site + 4].int)

\* C27: `shl dst, n` with 1 <= n <= 8 * dst.size stores dst shifted left by n
\* truncated to dst.size (bit i of the result is bit i - n of the operand, 0
\* below n), sets CF to the last bit shifted out of the top of dst.size
\* (original bit 8 * size - n) and OF to MSB(result) XOR CF
C27_Shl ==
    (Shifted({"SHL"}) /\ Count \in 1..(8 * Width))
    => /\ \A i \in 0..(8 * Width - 1) :
             BitOf(Written, i) = IF i >= Count THEN BitOf(Operand, i - Count) ELSE 0
       /\ \A k \in (1..4) \ NamedBytes(text[Site + 2].value) :
             reg[Dword(text[Site + 2].value)][k]
               = hist[1].reg[Dword(text[Site + 2].value)][k]
       /\ cf <=> BitOf(Operand, 8 * Width - Count) = 1
       /\ of <=> ((BitOf(Written, 8 * Width - 1) = 1) # cf)

\* `shl al, 1` with AL = 81 has left AL = 02 with CF and OF set
C27_Witness ==
    /\ Shifted({"SHL"})
    /\ text[Site + 2].value = "AL"
    /\ Count = 1
    /\ Operand = B4(129)
    /\ Written = B4(2)
    /\ cf
    /\ of
-----------------------------------------------------------------------------
(* C28: the carry of shr and sar                                            *)

\* C28: `shr dst, n` and `sar dst, n` with n >= 1 set CF to the last bit
\* shifted out of bit 0, i.e. bit n - 1 of the original operand (stated here
\* for the counts up to the width of dst, where the operand has such a bit);
\* e.g. `shr` by 1 of the value 1 leaves 0 with CF set
C28_ShrSarCf ==
    (Shifted({"SHR", "SAR"}) /\ Count \in 1..(8 * Width))
    => (cf <=> BitOf(Operand, Count - 1) = 1)

\* what the code does for shr: CF is bit 0 of the result, that is bit n of the
\* original operand
C28_ShrCf_BitN ==
    (Shifted({"SHR"}) /\ Count < 64)
    => (cf <=> (Count < 8 * Width /\ BitOf(Operand, Count) = 1))

\* `shr al, 1` with AL = 1 has left AL = 0 with CF clear
C28_ShrOfOne ==
    /\ Shifted({"SHR"})
    /\ text[Site + 2].value = "AL"
    /\ Count = 1
    /\ Operand = B4(1)
    /\ Written = Z4
    /\ ~cf
-----------------------------------------------------------------------------
(* C29: the sign of sar                                                     *)

\* bit i of the w-byte value v shifted right by n, the vacated bits being top
ShiftedRightBit(v, w, n, i, top) == IF i + n <= 8 * w - 1 THEN BitOf(v, i + n) ELSE top

\* the most significant bit of the operand at its own width
SignBit == BitOf(Operand, 8 * Width - 1)

\* C29: `sar dst, n` preserves the sign of dst at dst's own width: for widths
\* 1, 2 and 4 the vacated high bits of the result are copies of the operand's
\* most significant bit (bit 8 * size - 1) and the result has the same sign
\* bit as the operand
C29_Sar ==
    (Shifted({"SAR"}) /\ Count < 64)
    => /\ \A i \in 0..(8 * Width - 1) :
             BitOf(Written, i) = ShiftedRightBit(Operand, Width, Count, i, SignBit)
       /\ BitOf(Written, 8 * Width - 1) = SignBit

\* C29 where the code agrees: 4-byte operands, and operands that are not
\* negative at their width
C29_Sar_DwordOrPositive ==
    (Shifted({"SAR"}) /\ Count < 64 /\ (Width = 4 \/ SignBit = 0)) => C29_Sar

\* what the code does at 1 and 2 bytes: the vacated bits are zeros, as in shr
C29_Sar_NarrowFillsZeros ==
    (Shifted({"SAR"}) /\ Count < 64 /\ Width < 4)
    => \A i \in 0..(8 * Width - 1) :
          BitOf(Written, i) = ShiftedRightBit(Operand, Width, Count, i, 0)

\* `sar al, 1` with AL = 80 has left AL = 40
C29_SarLosesSign ==
    /\ Shifted({"SAR"})
    /\ text[Site + 2].value = "AL"
    /\ Count = 1
    /\ Operand = B4(128)
    /\ Written = B4(64)
-----------------------------------------------------------------------------
(* C30: cmp and the jump after it                                           *)

\* the last dispatch was a jump on an order, right after a `cmp a, b` on two
\* registers of one width
JumpedAfterCmp ==
    /\ Dispatched(OrderJumps)
    /\ DispatchedBefore({"CMP"})
    /\ text[SiteBefore + 2].type = "REGISTER"
    /\ text[SiteBefore + 4].type = "REGISTER"
    /\ SizeOf(text[SiteBefore + 2].value) = SizeOf(text[SiteBefore + 4].value)
    /\ Site = SiteBefore + 4
    /\ status = "running"

\* the operands of that cmp and their width
ComparedA == Held(hist[2].reg, text[SiteBefore + 2].value)
ComparedB == Held(hist[2].reg, text[SiteBefore + 4].value)
ComparedWidth == SizeOf(text[SiteBefore + 2].value)

\* a < b as signed w-byte values
Less(a, b, w) ==
    \/ SignedHi(a, w) < SignedHi(b, w)
    \/ SignedHi(a, w) = SignedHi(b, w) /\ SignedLo(a, w) < SignedLo(b, w)

\* the order each jump stands for
Decides(jcc, a, b, w) ==
    CASE jcc = "JL"  -> Less(a, b, w)
      [] jcc = "JGE" -> ~Less(a, b, w)
      [] jcc = "JG"  -> Less(b, a, w)
      [] jcc = "JLE" -> ~Less(b, a, w)
      [] jcc = "JB"  -> Below(a, b)
      [] jcc = "JAE" -> ~Below(a, b)
      [] jcc = "JA"  -> Below(b, a)
      [] jcc = "JBE" -> ~Below(b, a)

\* the jump dispatched last was taken: EIP is not at the token after its operand
JumpTaken == Val24(eip) # Site + 2

\* C30: `cmp a, b` on two registers of the same width holding any values
\* completes, and the conditional jump after it is taken iff its order holds
\* of a and b: jl iff a < b signed, jge iff a >= b signed, jg iff a > b signed,
\* jle iff a <= b signed, jb iff a < b unsigned, jae iff a >= b unsigned, ja iff
\* a > b unsigned, jbe iff a <= b unsigned; also for values whose 32-bit signed
\* difference or product overflows
C30_CmpJump ==
    /\ CmpOnRegisters => status = "running"
    /\ JumpedAfterCmp
       => (JumpTaken <=> Decides(Tok(hist[1]).value, ComparedA, ComparedB, ComparedWidth))

\* C30 in a release build alone, where every cmp completes: fails on the signed
\* orders when the cmp has set OF
C30_CmpJump_Release ==
    (build = "release" /\ JumpedAfterCmp)
    => (JumpTaken <=> Decides(Tok(hist[1]).value, ComparedA, ComparedB, ComparedWidth))

\* C30 where the code agrees: the jumps on an unsigned order, the jumps on a
\* signed order after a cmp that left OF clear, and all of them at 1 and 2
\* bytes, where every cmp completes
C30_CmpJump_Unsigned ==
    /\ (CmpOnRegisters /\ Width < 4) => status = "running"
    /\ (JumpedAfterCmp /\ (Tok(hist[1]).value \in {"JB", "JAE", "JA", "JBE"}
                           \/ ~hist[1].of \/ ComparedWidth < 4))
       => (JumpTaken <=> Decides(Tok(hist[1]).value, ComparedA, ComparedB, ComparedWidth))

\* `cmp eax, ebx` with EAX = 80000000, EBX = 1 in a release build, then `jl`:
\* the jump was not taken although EAX < EBX
C30_JlNotTaken ==
    /\ JumpedAfterCmp
    /\ build = "release"
    /\ Tok(hist[1]).value = "JL"
    /\ ComparedA = <<0, 0, 0, 128>>
    /\ ComparedB = B4(1)
    /\ ~JumpTaken

\* the same cmp in a debug build has aborted the run
C30_CmpAborts ==
    /\ CmpOnRegisters
    /\ build = "debug"
    /\ OperandA = <<0, 0, 0, 128>>
    /\ OperandB = B4(1)
    /\ status = "panic"

-----------------------------------------------------------------------------
(* C31: push of a constant                                                  *)

\* the operand of the `push` at token index site is a literal, with or without `-`
ConstantAt(site) ==
    \/ site + 2 <= Len(text) /\ text[site + 2].type = "IMMEDIATE_DATA"
    \/ site + 3 <= Len(text) /\ text[site + 2].value = "MINUS"
                             /\ text[site + 3].type = "IMMEDIATE_DATA"

\* the literal at site as a 32-bit two's complement value
ConstantOf(site) ==
    IF text[site + 2].value = "MINUS" THEN overflowing_neg(text[site + 3].int).v
    ELSE text[site + 2].int

\* the number of tokens of `push c` at site
PushLength(site) == IF text[site + 2].value = "MINUS" THEN 3 ELSE 2

\* the magnitude of the literal at site and whether a `-` precedes it
Magnitude(site) ==
    IF text[site + 2].value = "MINUS" THEN text[site + 3].int ELSE text[site + 2].int

Minused(site) == text[site + 2].value = "MINUS"

\* the size of the literal at site by its signed value: the smallest of 1, 2, 4
\* bytes whose unsigned range (value >= 0) or signed range (value < 0) holds
\* it, and 0 for a value below -2^31
ConstantSize(site) ==
    IF Minused(site) /\ Magnitude(site) # Z4
    THEN IF ~Below(B4(128), Magnitude(site)) THEN 1
         ELSE IF ~Below(B4(32768), Magnitude(site)) THEN 2
         ELSE IF ~Below(<<0, 0, 0, 128>>, Magnitude(site)) THEN 4
         ELSE 0
    ELSE IF Below(Magnitude(site), B4(256)) THEN 1
         ELSE IF Below(Magnitude(site), B4(65536)) THEN 2
         ELSE 4

\* the last dispatch was `push c`
PushedConstant == Dispatched({"PUSH"}) /\ ConstantAt(Site)

\* the last two dispatches were `push c` and, directly after it, `pop r32`
PushConstantThenPop ==
    /\ Dispatched({"POP"})
    /\ DispatchedBefore({"PUSH"})
    /\ ConstantAt(SiteBefore)
    /\ Site = SiteBefore + PushLength(SiteBefore)
    /\ OperandIs(1, "REGISTER")
    /\ NamedBytes(text[Site + 2].value) = {1, 2, 3, 4}

\* C31 as stated: `push c` lowers ESP by 4 whatever the magnitude of c, and
\* `push c ; pop r32` leaves r32 = c and ESP as it was before the push.
C31_PushConstant ==
    /\ PushedConstant
       => (status = "running" /\ reg["ESP"] = overflowing_sub(hist[1].reg["ESP"], B4(4)).v)
    /\ PushConstantThenPop
       => /\ status = "running"
          /\ reg[text[Site + 2].value] = ConstantOf(SiteBefore)
          /\ reg["ESP"] = hist[2].reg["ESP"]

\* C31 where the code agrees: a constant whose inferred size is 4 bytes
C31_PushConstant_Dword ==
    /\ (PushedConstant /\ ConstantSize(Site) = 4)
       => (status = "running" /\ reg["ESP"] = overflowing_sub(hist[1].reg["ESP"], B4(4)).v)
    /\ (PushConstantThenPop /\ ConstantSize(SiteBefore) = 4)
       => /\ status = "running"
          /\ reg[text[Site + 2].value] = ConstantOf(SiteBefore)
          /\ reg["ESP"] = hist[2].reg["ESP"]

\* `push 70000 ; push 5 ; pop eax`: the 5 took one byte of the stack, the pop
\* took four, so EAX = 5 + 256 * 70000 and ESP is 3 above where it was
C31_PushFiveTakesOneByte ==
    /\ PushConstantThenPop
    /\ ConstantOf(SiteBefore) = B4(5)
    /\ hist[2].reg["ESP"] = B4(MAX - 5)
    /\ hist[1].reg["ESP"] = B4(MAX - 6)
    /\ status = "running"
    /\ reg["EAX"] = <<5, 112, 17, 1>>
    /\ reg["ESP"] = B4(MAX - 2)

\* `push 5 ; pop eax` on the empty stack: the pop reads past the end of the
\* stack array and the run aborts
C31_PushFivePopAborts ==
    /\ PushConstantThenPop
    /\ ConstantOf(SiteBefore) = B4(5)
    /\ hist[2].reg["ESP"] = B4(MAX - 1)
    /\ status = "panic"

-----------------------------------------------------------------------------
(* C32: enter and leave                                                     *)

\* the dword the stack array arr holds at byte index a
StackDword(arr, a) == [k \in 1..4 |-> ByteAt(arr, a + k - 1)]

\* every register but ESP and EBP is what it was before the last dispatch
OthersKept == \A r \in RegNames \ {"ESP", "EBP"} : reg[r] = hist[1].reg[r]

\* the last dispatch was an `enter` with room for a dword below ESP
Entered ==
    /\ Dispatched({"ENTER"})
    /\ AsIndex(hist[1].reg["ESP"]) \in 4..MAX

\* the last dispatch was a `leave` with EBP on a dword of the stack array
Left ==
    /\ Dispatched({"LEAVE"})
    /\ AsIndex(hist[1].reg["EBP"]) + 4 <= MAX

\* the last dispatch was the `leave` of EnterLeaveProgram(j, k, v)
LeftFrame(j, k, v) == Dispatched({"LEAVE"}) /\ source = EnterLeaveProgram(j, k, v)

\* C32: `enter` lowers ESP by 4, stores EBP there and sets EBP to the new ESP;
\* `leave` sets ESP to EBP and pops EBP; hence after `enter ; k pushes ; leave`,
\* entered with ESP = MAX-1-4j and EBP = v, ESP and EBP are MAX-1-4j and v again.
C32_EnterLeave ==
    /\ Entered
       => /\ status = "running"
          /\ reg["ESP"] = overflowing_sub(hist[1].reg["ESP"], B4(4)).v
          /\ reg["EBP"] = reg["ESP"]
          /\ stack = StoreBytes(hist[1].stack, AsIndex(reg["ESP"]), 4, hist[1].reg["EBP"])
          /\ OthersKept
    /\ Left
       => /\ status = "running"
          /\ reg["ESP"] = overflowing_add(hist[1].reg["EBP"], B4(4)).v
          /\ reg["EBP"] = StackDword(hist[1].stack, AsIndex(hist[1].reg["EBP"]))
          /\ stack = hist[1].stack
          /\ OthersKept
    /\ \A j \in FramePushes, k \in FramePushes, v \in FrameBases :
          LeftFrame(j, k, v)
          => /\ status = "running"
             /\ reg["ESP"] = B4(MAX - 1 - 4 * j)
             /\ reg["EBP"] = v

\* `enter ; push eax ; push eax ; leave` entered one push deep with EBP = 1000:
\* the leave found ESP two dwords below EBP and has restored both
C32_Witness ==
    /\ LeftFrame(1, 2, B4(1000))
    /\ hist[1].reg["ESP"] = B4(MAX - 17)
    /\ hist[1].reg["EBP"] = B4(MAX - 9)
    /\ reg["ESP"] = B4(MAX - 5)
    /\ reg["EBP"] = B4(1000)

-----------------------------------------------------------------------------
(* C33: the size and the value of an immediate operand                      *)

\* the last dispatch was `mov r32, c`
MovedConstant ==
    /\ MovOfLiteral
    /\ DstSize = 4
    /\ ConstantAt(Site + 2)

\* C33: an immediate (optional `-`, then a literal) has size 1 for 0..255, 2 for
\* 256..65535, 4 for 65536..2^32-1, 1 for -128..-1, 2 for -32768..-129, 4 for
\* -2^31..-32769, is fatal below -2^31, and its value is the 32-bit two's
\* complement of the signed value: `push c` lowers ESP by that size and stores
\* that many low bytes of the value, `mov r32, c` loads the value.
C33_Immediate ==
    /\ PushedConstant
       => IF ConstantSize(Site) = 0 THEN status = "panic"
          ELSE /\ status = "running"
               /\ reg["ESP"] = overflowing_sub(hist[1].reg["ESP"], B4(ConstantSize(Site))).v
               /\ stack = StoreBytes(hist[1].stack, AsIndex(reg["ESP"]), ConstantSize(Site),
                                     ConstantOf(Site))
    /\ MovedConstant
       => /\ ConstantSize(Site + 2) # 0
          /\ status = "running"
          /\ reg[text[Site + 2].value] = ConstantOf(Site + 2)

\* `push -32769` has taken four bytes of stack, FF FF 7F FF from the top down,
\* and `push -32768` two
C33_Witness ==
    /\ PushedConstant
    /\ Minused(Site)
    /\ Magnitude(Site) = B4(32769)
    /\ status = "running"
    /\ hist[1].reg["ESP"] = B4(MAX - 1)
    /\ reg["ESP"] = B4(MAX - 5)
    /\ stack = StoreBytes(<<>>, MAX - 5, 4, <<255, 127, 255, 255>>)

\* `push -2147483649` has aborted the run
C33_BelowMinAborts ==
    /\ PushedConstant
    /\ Minused(Site)
    /\ Magnitude(Site) = <<1, 0, 0, 128>>
    /\ status = "panic"

-----------------------------------------------------------------------------
(* C34: a memory operand outside the memory array                           *)

\* the tokens from index k on are `<size> ptr [ <literal> ]`
MemOperandAt(k) ==
    /\ k + 4 <= Len(text)
    /\ text[k].value \in {"BYTE", "WORD", "DWORD"}
    /\ text[k + 1].value = "PTR"
    /\ text[k + 2].value = "LBRACK"
    /\ text[k + 3].type = "IMMEDIATE_DATA"
    /\ text[k + 4].value = "RBRACK"

\* not all of the bytes addr .. addr + size - 1 of that operand lie in memory
Outside(k) == AsIndex(text[k + 3].int) + KeywordSize(text[k].value) > MAX

\* the last dispatch was an instruction whose first or second operand is a
\* memory operand at token index k
WithMemOperand(k) ==
    /\ hist # <<>>
    /\ InText(hist[1])
    /\ Tok(hist[1]).type = "INSTRUCTION"
    /\ MemOperandAt(k)
    /\ \/ k = Site + 2
       \/ k = Site + 4 /\ text[Site + 2].type = "REGISTER" /\ text[Site + 3].value = "COMMA"

\* the last dispatch was an instruction with a memory operand outside memory
TouchedOutside ==
    /\ hist # <<>>
    /\ \E k \in {Site + 2, Site + 4} : WithMemOperand(k) /\ Outside(k)

\* C34 as stated: an instruction with a memory operand `SIZE PTR [addr]` whose
\* bytes addr .. addr+size-1 do not all lie inside the memory array is a fatal
\* error, and no byte of memory, stack or registers is modified by it.
C34_MemoryBounds == TouchedOutside => (status = "panic" /\ NothingWritten)

\* C34 where the code agrees: the instruction is a fatal error, and unless it
\* is a `push` nothing was written
C34_MemoryBounds_Fatal ==
    TouchedOutside => (status = "panic" /\ (Dispatched({"PUSH"}) \/ NothingWritten))

\* `push dword ptr [1048576]` has aborted with ESP already lowered by 4
C34_PushLowersEsp ==
    /\ Dispatched({"PUSH"})
    /\ TouchedOutside
    /\ text[Site + 2].value = "DWORD"
    /\ text[Site + 5].int = B4(MAX)
    /\ status = "panic"
    /\ reg["ESP"] = overflowing_sub(hist[1].reg["ESP"], B4(4)).v

\* an operand that ends on the last byte of memory is read and written:
\* `mov dword ptr [1048572], eax` has stored EAX there
C34_LastDword ==
    /\ Dispatched({"MOV"})
    /\ WithMemOperand(Site + 2)
    /\ text[Site + 5].int = B4(MAX - 4)
    /\ status = "running"
    /\ memory = StoreBytes(<<>>, MAX - 4, 4, Pattern1)

-----------------------------------------------------------------------------
(* C35: the entry point                                                     *)

\* the positions (from 1) in the token sequence src of the declarations of an
\* entry label: such a label with a colon after it
EntryDeclarations(src) ==
    {i \in 1..(Len(src) - 1) :
        /\ src[i].type = "LABEL"
        /\ src[i].name \in EntryLabels
        /\ src[i + 1].value = "COLON"}

\* the stream index of the last of them, and 0 when there is none
EntryIndex(src) ==
    IF EntryDeclarations(src) = {} THEN 0
    ELSE (CHOOSE i \in EntryDeclarations(src) : \A j \in EntryDeclarations(src) : j <= i) - 1

\* preprocessing has returned and nothing was dispatched yet
Started == status = "running" /\ hist = <<>>

\* C35: execution starts at the stream index of the last declared label among
\* main, start, _main, _start, and at index 0 when none of them is declared:
\* that is EIP when preprocessing returns, and the index of the first dispatch.
C35_Entry ==
    /\ Started => eip = B4(EntryIndex(source))
    /\ Len(hist) = 1 => hist[1].eip = B4(EntryIndex(source))

\* `main: mov eax, 1 ; int 128 ; _start: mov eax, 2 ; int 128`: the first
\* dispatch was at the `_start` at index 8, and went past the label
C35_Witness ==
    /\ source = TwoRoutines("main", "_start")
    /\ Len(hist) = 1
    /\ text[9].name = "_start"
    /\ hist[1].eip = B4(8)
    /\ eip = B4(10)
    /\ status = "running"

-----------------------------------------------------------------------------
(* C36: labels and other tokens at instruction position                     *)

\* the last step of the dispatch loop found a token of one of these types
Fetched(types) ==
    /\ hist # <<>>
    /\ InText(hist[1])
    /\ Tok(hist[1]).type \in types

\* the last step of the dispatch loop found a token of none of these types
FetchedNot(types) ==
    /\ hist # <<>>
    /\ InText(hist[1])
    /\ Tok(hist[1]).type \notin types

\* the token it found is followed by a colon
BeforeColon == Site + 2 <= Len(text) /\ text[Site + 2].value = "COLON"

\* the last step moved EIP
Advanced == eip # hist[1].eip

\* C36 as stated: the loop advances EIP by two at a LABEL token only over a
\* label and its colon; any other token that is not an instruction, an
\* identifier without a colon after it included, is a fatal error and no token
\* is skipped.
C36_LabelSkip ==
    /\ (Fetched({"LABEL"}) /\ Advanced) => BeforeColon
    /\ (Fetched({"LABEL"}) /\ BeforeColon)
       => (status = "running" /\ eip = AddC(hist[1].eip, B4(2), 0).v)
    /\ (FetchedNot({"INSTRUCTION"}) /\ ~(Fetched({"LABEL"}) /\ BeforeColon))
       => (status = "panic" /\ ~Advanced)

\* C36 where the code agrees: a declaration is skipped, and a token that is
\* neither an instruction nor an identifier is a fatal error
C36_LabelSkip_Declared ==
    /\ (Fetched({"LABEL"}) /\ BeforeColon)
       => (status = "running" /\ eip = AddC(hist[1].eip, B4(2), 0).v /\ NothingWritten)
    /\ FetchedNot({"INSTRUCTION", "LABEL"}) => (status = "panic" /\ ~Advanced)

\* `foo ret mov eax, 7 ; int 128`: the loop went over `foo` and the `ret`
\* after it and the run goes on at the `mov`
C36_SkippedRet ==
    /\ Fetched({"LABEL"})
    /\ Tok(hist[1]).name = "foo"
    /\ text[Site + 2].value = "RET"
    /\ status = "running"
    /\ eip = B4(2)
    /\ Tok(Cur).value = "MOV"

-----------------------------------------------------------------------------
(* C37: EIP is a bounded index                                              *)

\* the mnemonics whose handler leaves EIP after the tokens it has read
Sequential ==
    {"MOV", "MOVSX", "MOVZX", "ADD", "SUB", "AND", "OR", "XOR", "MUL", "DIV", "IDIV",
     "INC", "DEC", "NOT", "NEG", "SHL", "SHR", "SAR", "PUSH", "POP", "CMP", "ENTER",
     "LEAVE"}

\* the last step of the loop found EIP at or beyond the end of the stream
FetchedBeyond == hist # <<>> /\ ~InText(hist[1])

\* C37: every token read lies at an index i with 0 <= i < Len(text): a fetch at
\* or beyond the end of the stream (off the end of a program, after a bad return
\* address) is a fatal error, a run ends quietly only at an instruction it has
\* fetched, a truncated final instruction is a fatal error, and a handler that
\* returns has read forward from EIP and not past the end.
C37_EipBounds ==
    /\ FetchedBeyond => status = "panic"
    /\ status = "halted" => Fetched({"INSTRUCTION"})
    /\ source \in TruncatedPrograms => status # "halted"
    /\ (Dispatched(Sequential) /\ status = "running")
       => /\ Below(hist[1].eip, eip)
          /\ eip[3] = 0 /\ eip[4] = 0 /\ Val24(eip) <= Len(text)

\* the `ret` of `call f ; int 128 ; f: mov eax, 1000 ; push eax ; ret` loaded
\* EIP = 1000, and the fetch there has aborted the run
C37_Witness ==
    /\ FetchedBeyond
    /\ DispatchedBefore({"RET"})
    /\ hist[1].eip = B4(1000)
    /\ status = "panic"

\* `mov ebx, 2 ; push ebx ; mov eax,` aborts in the decoder of the `mov`
C37_TruncatedMov ==
    /\ source \in TruncatedPrograms
    /\ Dispatched({"MOV"})
    /\ Site + 3 = Len(text)
    /\ text[Site + 3].value = "COMMA"
    /\ status = "panic"

\* `mov eax, 1` without an `int` after it: the fetch at the end has aborted
C37_OffTheEnd ==
    /\ FetchedBeyond
    /\ DispatchedBefore({"MOV"})
    /\ Val24(hist[1].eip) = Len(text)
    /\ status = "panic"

-----------------------------------------------------------------------------
(* C38: the call depth                                                      *)

\* the last dispatch was a `call` on a resolved label with room on the stack
\* for the return address
Called ==
    /\ Dispatched({"CALL"})
    /\ OperandIs(1, "IMMEDIATE_DATA")
    /\ AsIndex(hist[1].reg["ESP"]) \in 4..MAX

\* C38 as stated: after n calls with no ret between them the call depth is
\* 1 + n, for n >= 255 too: a `call` adds one to the call depth, never makes it
\* 0 and never ends or aborts the run.
C38_CallDepth ==
    Called => /\ status = "running"
              /\ depth = hist[1].depth + 1
              /\ depth = 1 + Len(calls)

\* C38 where the code agrees: the calls dispatched at a call depth below 255
C38_CallDepth_Below255 == (Called /\ hist[1].depth < 255) => C38_CallDepth

\* `f: call f` in a release build: the 255th call has left call depth 0 with
\* 255 calls open, and the run has ended
C38_DepthWraps ==
    /\ Called
    /\ build = "release"
    /\ Len(calls) = 255
    /\ hist[1].depth = 255
    /\ depth = 0
    /\ status = "halted"

\* the same call in a debug build has aborted the run
C38_CallAborts ==
    /\ Called
    /\ build = "debug"
    /\ Len(calls) = 255
    /\ hist[1].depth = 255
    /\ status = "panic"

-----------------------------------------------------------------------------
(* C39: the bounds of the stack array                                       *)

\* the size of the register operand of the push or pop dispatched last
ItemSize == Cardinality(NamedBytes(text[Site + 2].value))

\* ESP and EBP before the last dispatch, as indices
EspBefore == AsIndex(hist[1].reg["ESP"])
EbpBefore == AsIndex(hist[1].reg["EBP"])

\* the last dispatch was a push or a pop of a register
OnStack(mnemonic) == Dispatched({mnemonic}) /\ OperandIs(1, "REGISTER")

\* C39: push, pop, call, ret, enter and leave touch only bytes of the stack
\* array: no byte is ever stored outside it; a pop, a ret at depth > 1 or a
\* leave of more bytes than lie between ESP (EBP for leave) and the end of the
\* array, and a push, call or enter with ESP below the size of the item (or
\* beyond the array), are fatal errors; one that returns has touched bytes
\* inside the array only.
C39_StackBounds ==
    /\ \A a \in DOMAIN stack : a \in 0..(MAX - 1)
    /\ OnStack("PUSH")
       => /\ EspBefore \notin ItemSize..MAX => status = "panic"
          /\ status = "running" => EspBefore \in ItemSize..MAX
    /\ OnStack("POP")
       => /\ EspBefore + ItemSize > MAX => status = "panic"
          /\ status = "running" => EspBefore + ItemSize <= MAX
    /\ (Dispatched({"CALL"}) /\ OperandIs(1, "IMMEDIATE_DATA"))
       => /\ EspBefore \notin 4..MAX => status = "panic"
          /\ status \in {"running", "halted"} => EspBefore \in 4..MAX
    /\ (Dispatched({"RET"}) /\ hist[1].depth > 1)
       => /\ EspBefore + 4 > MAX => status = "panic"
          /\ status \in {"running", "halted"} => EspBefore + 4 <= MAX
    /\ Dispatched({"ENTER"})
       => /\ EspBefore \notin 4..MAX => status = "panic"
          /\ status = "running" => EspBefore \in 4..MAX
    /\ Dispatched({"LEAVE"})
       => /\ EbpBefore + 4 > MAX => status = "panic"
          /\ status = "running" => EbpBefore + 4 <= MAX

\* `pop ebx` with ESP = MAX-3, three bytes from the end of the array, has
\* aborted the run in a release build
C39_Witness ==
    /\ OnStack("POP")
    /\ build = "release"
    /\ ItemSize = 4
    /\ EspBefore = MAX - 3
    /\ status = "panic"

\* `push eax` with ESP = 2 has aborted the run in both builds
C39_PushBelowAborts ==
    /\ OnStack("PUSH")
    /\ ItemSize = 4
    /\ EspBefore = 2
    /\ status = "panic"

\* `push eax` with ESP = 4 has filled the first dword of the array
C39_PushToBottom ==
    /\ OnStack("PUSH")
    /\ EspBefore = 4
    /\ status = "running"
    /\ reg["ESP"] = Z4
    /\ stack = StoreBytes(<<>>, 0, 4, Pattern1)

====
